---- MODULE Spec2Model ----
(***************************************************************************)
(* A model of momento-python-redis-client: the redis-py command surface    *)
(* implemented over the Momento cache client.  Three adapter classes exist *)
(* in the repository and are modelled side by side:                        *)
(*   "client"  src/src/momento_python_redis_client/momento_redis_client.py *)
(*   "wrapper" src/src/momento_python_redis_client/momento_redis_wrapper.py*)
(*   "legacy"  src/momento_python_redis_client/momento_redis_wrapper.py    *)
(* All state lives in the remote cache (store for the scalar items, lists  *)
(* for the list items); the adapter holds only its                         *)
(* client and cache name.  Every command is one action: it normalises its  *)
(* arguments, issues its remote call(s) and maps the response.  The call   *)
(* just made is kept in `last` (and the one before it in `prev`).          *)
(***************************************************************************)
EXTENDS Integers, Sequences, FiniteSets, TLC

VARIABLES variant, cache_name, store, lists, dictionaries, sets, sorted_sets, now, last, prev,
          callers

vars == <<variant, cache_name, store, lists, dictionaries, sets, sorted_sets, now, last, prev,
          callers>>

(* ------------------------------ bounds --------------------------------- *)

\* The clock runs from 0 to MaxTime seconds.
MaxTime == 2
\* Counters stay within -MaxCounter .. MaxCounter.
MaxCounter == 3
\* A list holds at most MaxList values.
MaxList == 2
\* The callers that use one adapter concurrently.
NCallers == 2

(* --------------------------- Python values ----------------------------- *)

\* A Python value: t is its type, v its content as a sequence of integers
\* (code points of a str, byte values of a bytes, <<n>> for an int).
Val(t, v) == [t |-> t, v |-> v]
NoneV == Val("none", <<>>)
TrueV == Val("bool", <<1>>)
FalseV == Val("bool", <<0>>)
StrV(cps) == Val("str", cps)
BytesV(bs) == Val("bytes", bs)
IntV(n) == Val("int", <<n>>)
EllipsisV == Val("ellipsis", <<>>)

RECURSIVE Items(_)
\* The entries of a list of bytes, str and None, one after the other: None
\* as <<0>>, bytes as <<1, their length>> followed by the bytes, a str as
\* <<2, its length>> followed by its code points.
Items(xs) ==
    IF xs = <<>> THEN <<>>
    ELSE (IF Head(xs).t = "none" THEN <<0>>
          ELSE <<(IF Head(xs).t = "bytes" THEN 1 ELSE 2), Len(Head(xs).v)>> \o Head(xs).v)
         \o Items(Tail(xs))
ListV(xs) == Val("list", Items(xs))

\* An optional argument as the caller passes it: "unset" is an omitted
\* argument, which takes the signature's default.
Arg(k, n) == [k |-> k, n |-> n]
Unset == Arg("unset", 0)
PyNone == Arg("none", 0)
PyFalse == Arg("bool", 0)
PyTrue == Arg("bool", 1)
PyInt(n) == Arg("int", n)
TimeDelta(n) == Arg("td", n)
Ellipsis == Arg("ellipsis", 0)

\* bool(x) of Python: Ellipsis is truthy, None and 0 and timedelta(0) are not.
Truthy(a) == \/ a.k = "ellipsis"
             \/ a.k \in {"bool", "int", "td"} /\ a.n # 0

\* int(x / 1000): true division, then truncation toward zero.
TruncDiv1000(n) == IF n >= 0 THEN n \div 1000 ELSE -((-n) \div 1000)

RECURSIVE Digits(_)
Digits(n) == IF n < 10 THEN <<48 + n>> ELSE Digits(n \div 10) \o <<48 + (n % 10)>>

\* str(n) for an int n: its decimal digits, as code points.
PyStr(n) == IF n < 0 THEN <<45>> \o Digits(-n) ELSE Digits(n)

(* ----------------------- the remote cache client ----------------------- *)

\* str.encode("utf-8") of one code point (below 0x800 here).
Utf8Char(c) == IF c < 128 THEN <<c>> ELSE <<192 + (c \div 64), 128 + (c % 64)>>

RECURSIVE Utf8(_)
Utf8(s) == IF s = <<>> THEN <<>> ELSE Utf8Char(Head(s)) \o Utf8(Tail(s))

\* The SDK accepts a str (sent UTF-8 encoded) or a bytes as key or value.
IsPayload(x) == x.t \in {"str", "bytes"}
AsBytes(x) == IF x.t = "str" THEN Utf8(x.v) ELSE x.v

RECURSIVE Utf8Valid(_)
Utf8Valid(b) ==
    \/ b = <<>>
    \/ b # <<>> /\ b[1] < 128 /\ Utf8Valid(Tail(b))
    \/ Len(b) >= 2 /\ b[1] \in 194..223 /\ b[2] \in 128..191 /\ Utf8Valid(Tail(Tail(b)))

RECURSIVE Utf8Decode(_)
\* bytes.decode("utf-8") of a valid encoding: value_string of a response.
Utf8Decode(b) ==
    IF b = <<>> THEN <<>>
    ELSE IF b[1] < 128 THEN <<b[1]>> \o Utf8Decode(Tail(b))
    ELSE <<(b[1] - 192) * 64 + (b[2] - 128)>> \o Utf8Decode(Tail(Tail(b)))

RECURSIVE DigitsValue(_)
DigitsValue(b) == IF b = <<>> THEN 0 ELSE 10 * DigitsValue(SubSeq(b, 1, Len(b) - 1)) + (b[Len(b)] - 48)

IsDigits(b) == b # <<>> /\ \A i \in 1..Len(b) : b[i] \in 48..57
\* The stored bytes read as a base-10 integer, as the remote increment does.
IsIntBytes(b) == IF b # <<>> /\ b[1] = 45 THEN IsDigits(Tail(b)) ELSE IsDigits(b)
IntOfBytes(b) == IF b[1] = 45 THEN -DigitsValue(Tail(b)) ELSE DigitsValue(b)

\* An entry of a cache.  exp is the time the item expires at; an item written
\* with the client's default TTL expires beyond the clock's horizon (Forever).
Forever == MaxTime + 1
Absent == [live |-> FALSE, val |-> <<>>, exp |-> 0]
Entry(val, exp) == [live |-> TRUE, val |-> val, exp |-> exp]

\* A response of the SDK: a closed set of variants per operation; an Error
\* carries inner_exception, an instance of one of the SDK's exception classes.
NoInner == [kind |-> "none", cls |-> ""]
ExcInstance(cls) == [kind |-> "instance", cls |-> cls]
ExcClass(cls) == [kind |-> "class", cls |-> cls]
Rsp(type, value) == [type |-> type, value |-> value, inner_exception |-> NoInner]
ErrorRsp(cls) == [type |-> "Error", value |-> <<>>, inner_exception |-> ExcInstance(cls)]

\* What can go wrong with one remote call, whatever the operation.
Causes == {"TimeoutException", "AuthenticationException", "ServerUnavailableException", "InternalServerException"}
Faults == {"ok"} \cup Causes
\* The scenarios let a read fail for every cause and a write for one.
WriteFaults == {"ok", "TimeoutException"}
\* A response that is an instance of none of the classes the commands test
\* for.  The remote keeps what it had.
Unrecognised == "Unrecognised"
FaultRsp(fault) == IF fault = Unrecognised THEN Rsp(Unrecognised, <<>>) ELSE ErrorRsp(fault)

\* The TTL of a write: None is the client's default; anything but a
\* non-negative timedelta is refused by the SDK's validation.
TtlValid(ttl) == ttl.k = "none" \/ (ttl.k = "td" /\ ttl.n >= 0)
ExpiryOf(ttl, t) == IF ttl.k = "none" THEN Forever ELSE t + ttl.n
Stored(val, ttl, t) == IF ttl.k = "td" /\ ttl.n = 0 THEN Absent ELSE Entry(val, ExpiryOf(ttl, t))

Put(st, cn, key, e) == [st EXCEPT ![cn][key] = e]

Remote_get(st, cn, key, fault) ==
    IF fault # "ok" THEN FaultRsp(fault)
    ELSE IF st[cn][key].live THEN Rsp("Hit", st[cn][key].val)
    ELSE Rsp("Miss", <<>>)

Remote_set(st, t, cn, key, value, ttl, fault) ==
    IF fault # "ok" THEN [rsp |-> FaultRsp(fault), st |-> st]
    ELSE IF ~IsPayload(value) \/ ~TtlValid(ttl)
    THEN [rsp |-> ErrorRsp("InvalidArgumentException"), st |-> st]
    ELSE [rsp |-> Rsp("Success", <<>>), st |-> Put(st, cn, key, Stored(AsBytes(value), ttl, t))]

Remote_set_if_not_exists(st, t, cn, key, value, ttl, fault) ==
    IF fault # "ok" THEN [rsp |-> FaultRsp(fault), st |-> st]
    ELSE IF ~IsPayload(value) \/ ~TtlValid(ttl)
    THEN [rsp |-> ErrorRsp("InvalidArgumentException"), st |-> st]
    ELSE IF st[cn][key].live THEN [rsp |-> Rsp("NotStored", <<>>), st |-> st]
    ELSE [rsp |-> Rsp("Stored", <<>>), st |-> Put(st, cn, key, Stored(AsBytes(value), ttl, t))]

Remote_delete(st, cn, key, fault) ==
    IF fault # "ok" THEN [rsp |-> FaultRsp(fault), st |-> st]
    ELSE [rsp |-> Rsp("Success", <<>>), st |-> Put(st, cn, key, Absent)]

\* increment: a missing key counts from 0; a value that is no base-10
\* integer is a failed precondition; the amount must be an int.
Remote_increment(st, cn, key, amount, fault) ==
    IF fault # "ok" THEN [rsp |-> FaultRsp(fault), st |-> st]
    ELSE IF amount.t # "int"
    THEN [rsp |-> ErrorRsp("InvalidArgumentException"), st |-> st]
    ELSE IF ~st[cn][key].live
    THEN [rsp |-> Rsp("Success", <<amount.v[1]>>),
          st |-> Put(st, cn, key, Entry(PyStr(amount.v[1]), Forever))]
    ELSE IF ~IsIntBytes(st[cn][key].val)
    THEN [rsp |-> ErrorRsp("FailedPreconditionException"), st |-> st]
    ELSE LET n == IntOfBytes(st[cn][key].val) + amount.v[1]
         IN [rsp |-> Rsp("Success", <<n>>),
             st |-> Put(st, cn, key, Entry(PyStr(n), st[cn][key].exp))]

\* The list items: a list that is absent and a list that is empty are the
\* same to the remote (both answer Miss).  No list scenario lets time pass,
\* so a list carries no expiry.
Remote_list_concatenate_back(ls, cn, key, values, fault) ==
    IF fault # "ok" THEN [rsp |-> FaultRsp(fault), st |-> ls]
    ELSE IF \E i \in 1..Len(values) : ~IsPayload(values[i])
    THEN [rsp |-> ErrorRsp("InvalidArgumentException"), st |-> ls]
    ELSE [rsp |-> Rsp("Success", <<>>),
          st |-> [ls EXCEPT ![cn][key] = @ \o [i \in 1..Len(values) |-> AsBytes(values[i])]]]

Remote_list_push_back(ls, cn, key, value, fault) ==
    Remote_list_concatenate_back(ls, cn, key, <<value>>, fault)

Remote_list_pop_front(ls, cn, key, fault) ==
    IF fault # "ok" THEN [rsp |-> FaultRsp(fault), st |-> ls]
    ELSE IF ls[cn][key] = <<>> THEN [rsp |-> Rsp("Miss", <<>>), st |-> ls]
    ELSE [rsp |-> Rsp("Hit", Head(ls[cn][key])), st |-> [ls EXCEPT ![cn][key] = Tail(@)]]

Remote_list_pop_back(ls, cn, key, fault) ==
    IF fault # "ok" THEN [rsp |-> FaultRsp(fault), st |-> ls]
    ELSE IF ls[cn][key] = <<>> THEN [rsp |-> Rsp("Miss", <<>>), st |-> ls]
    ELSE [rsp |-> Rsp("Hit", ls[cn][key][Len(ls[cn][key])]),
          st |-> [ls EXCEPT ![cn][key] = SubSeq(@, 1, Len(@) - 1)]]

\* list_concatenate_front puts the values, in their order, before the list.
Remote_list_concatenate_front(ls, cn, key, values, fault) ==
    IF fault # "ok" THEN [rsp |-> FaultRsp(fault), st |-> ls]
    ELSE IF \E i \in 1..Len(values) : ~IsPayload(values[i])
    THEN [rsp |-> ErrorRsp("InvalidArgumentException"), st |-> ls]
    ELSE [rsp |-> Rsp("Success", <<>>),
          st |-> [ls EXCEPT ![cn][key] = [i \in 1..Len(values) |-> AsBytes(values[i])] \o @]]

Remote_list_push_front(ls, cn, key, value, fault) ==
    Remote_list_concatenate_front(ls, cn, key, <<value>>, fault)

\* list_length answers Hit with the length, Miss for a list that is absent.
Remote_list_length(ls, cn, key, fault) ==
    IF fault # "ok" THEN FaultRsp(fault)
    ELSE IF ls[cn][key] = <<>> THEN Rsp("Miss", <<>>)
    ELSE Rsp("Hit", <<Len(ls[cn][key])>>)

\* list_fetch answers Hit with the whole list, head first.
Remote_list_fetch(ls, cn, key, fault) ==
    IF fault # "ok" THEN FaultRsp(fault)
    ELSE IF ls[cn][key] = <<>> THEN Rsp("Miss", <<>>)
    ELSE Rsp("Hit", ls[cn][key])

\* One remote call as the adapter issued it, with the variant it answered.
RECURSIVE BytesLess(_, _)
\* The order of two byte strings, byte by byte.
BytesLess(a, b) ==
    IF a = <<>> THEN b # <<>>
    ELSE IF b = <<>> THEN FALSE
    ELSE IF a[1] # b[1] THEN a[1] < b[1]
    ELSE BytesLess(Tail(a), Tail(b))

RECURSIVE InOrder(_)
\* The byte strings of S in order: the remote keeps no insertion order.
InOrder(S) ==
    IF S = {} THEN <<>>
    ELSE LET m == CHOOSE x \in S : \A y \in S \ {x} : BytesLess(x, y)
         IN <<m>> \o InOrder(S \ {m})

\* A remote dictionary is a function from field bytes to value bytes; one
\* with no field is absent.  The collection scenarios let no time pass, so a
\* collection carries no expiry.
WithField(d, f, v) == [x \in DOMAIN d \cup {f} |-> IF x = f THEN v ELSE d[x]]
WithoutFields(d, fs) == [x \in DOMAIN d \ fs |-> d[x]]

RECURSIVE Merge(_, _)
Merge(d, items) ==
    IF items = <<>> THEN d
    ELSE Merge(WithField(d, AsBytes(Head(items)[1]), AsBytes(Head(items)[2])), Tail(items))

Remote_dictionary_set_fields(ds, cn, name, items, fault) ==
    IF fault # "ok" THEN [rsp |-> FaultRsp(fault), st |-> ds]
    ELSE IF \E i \in 1..Len(items) : ~IsPayload(items[i][1]) \/ ~IsPayload(items[i][2])
    THEN [rsp |-> ErrorRsp("InvalidArgumentException"), st |-> ds]
    ELSE [rsp |-> Rsp("Success", <<>>), st |-> [ds EXCEPT ![cn][name] = Merge(@, items)]]

Remote_dictionary_fetch(ds, cn, name, fault) ==
    IF fault # "ok" THEN FaultRsp(fault)
    ELSE IF DOMAIN ds[cn][name] = {} THEN Rsp("Miss", <<>>)
    ELSE Rsp("Hit", ds[cn][name])

\* One response per requested field, in the order of the request; Miss for
\* the whole call when the dictionary is absent.
Remote_dictionary_get_fields(ds, cn, name, fields, fault) ==
    IF fault # "ok" THEN FaultRsp(fault)
    ELSE IF DOMAIN ds[cn][name] = {} THEN Rsp("Miss", <<>>)
    ELSE Rsp("Hit", [i \in 1..Len(fields) |->
                        LET f == AsBytes(fields[i])
                        IN IF f \in DOMAIN ds[cn][name]
                           THEN [type |-> "Hit", field |-> f, value |-> ds[cn][name][f]]
                           ELSE [type |-> "Miss", field |-> f, value |-> <<>>]])

\* One field of a dictionary: Miss when the dictionary or the field is
\* absent.
Remote_dictionary_get_field(ds, cn, name, field, fault) ==
    IF fault # "ok" THEN FaultRsp(fault)
    ELSE IF AsBytes(field) \notin DOMAIN ds[cn][name] THEN Rsp("Miss", <<>>)
    ELSE Rsp("Hit", ds[cn][name][AsBytes(field)])

\* Removing a field that is absent is a Success as well.
Remote_dictionary_remove_fields(ds, cn, name, fields, fault) ==
    IF fault # "ok" THEN [rsp |-> FaultRsp(fault), st |-> ds]
    ELSE IF \E i \in 1..Len(fields) : ~IsPayload(fields[i])
    THEN [rsp |-> ErrorRsp("InvalidArgumentException"), st |-> ds]
    ELSE [rsp |-> Rsp("Success", <<>>),
          st |-> [ds EXCEPT ![cn][name] =
                     WithoutFields(@, {AsBytes(fields[i]) : i \in 1..Len(fields)})]]

\* A remote set is the set of its elements' bytes; one with no element is
\* absent.
Remote_set_add_elements(ss, cn, name, elements, fault) ==
    IF fault # "ok" THEN [rsp |-> FaultRsp(fault), st |-> ss]
    ELSE IF \E i \in 1..Len(elements) : ~IsPayload(elements[i])
    THEN [rsp |-> ErrorRsp("InvalidArgumentException"), st |-> ss]
    ELSE [rsp |-> Rsp("Success", <<>>),
          st |-> [ss EXCEPT ![cn][name] = @ \cup {AsBytes(elements[i]) : i \in 1..Len(elements)}]]

\* Removing an element that is absent is a Success as well.
Remote_set_remove_elements(ss, cn, name, elements, fault) ==
    IF fault # "ok" THEN [rsp |-> FaultRsp(fault), st |-> ss]
    ELSE IF \E i \in 1..Len(elements) : ~IsPayload(elements[i])
    THEN [rsp |-> ErrorRsp("InvalidArgumentException"), st |-> ss]
    ELSE [rsp |-> Rsp("Success", <<>>),
          st |-> [ss EXCEPT ![cn][name] = @ \ {AsBytes(elements[i]) : i \in 1..Len(elements)}]]

Remote_set_fetch(ss, cn, name, fault) ==
    IF fault # "ok" THEN FaultRsp(fault)
    ELSE IF ss[cn][name] = {} THEN Rsp("Miss", {})
    ELSE Rsp("Hit", ss[cn][name])

\* A remote sorted set is a function from element bytes to score; one with
\* no element is absent.
RECURSIVE Ascending(_)
\* The elements with their scores by ascending score, equal scores by element.
Ascending(z) ==
    IF DOMAIN z = {} THEN <<>>
    ELSE LET m == CHOOSE x \in DOMAIN z :
                      \A y \in DOMAIN z \ {x} : z[x] < z[y] \/ (z[x] = z[y] /\ BytesLess(x, y))
         IN <<<<m, z[m]>>>> \o Ascending(WithoutFields(z, {m}))

Reverse(xs) == [i \in 1..Len(xs) |-> xs[Len(xs) + 1 - i]]
InSortOrder(z, sort_order) ==
    IF sort_order = "ASCENDING" THEN Ascending(z) ELSE Reverse(Ascending(z))

RECURSIVE PutAll(_, _)
PutAll(z, elements) ==
    IF elements = <<>> THEN z
    ELSE PutAll(WithField(z, AsBytes(Head(elements)[1]), Head(elements)[2]), Tail(elements))

Remote_sorted_set_put_elements(zs, cn, name, elements, fault) ==
    IF fault # "ok" THEN [rsp |-> FaultRsp(fault), st |-> zs]
    ELSE IF \E i \in 1..Len(elements) : ~IsPayload(elements[i][1])
    THEN [rsp |-> ErrorRsp("InvalidArgumentException"), st |-> zs]
    ELSE [rsp |-> Rsp("Success", <<>>), st |-> [zs EXCEPT ![cn][name] = PutAll(@, elements)]]

\* Removing an element that is absent is a Success as well.
Remote_sorted_set_remove_elements(zs, cn, name, values, fault) ==
    IF fault # "ok" THEN [rsp |-> FaultRsp(fault), st |-> zs]
    ELSE IF \E i \in 1..Len(values) : ~IsPayload(values[i])
    THEN [rsp |-> ErrorRsp("InvalidArgumentException"), st |-> zs]
    ELSE [rsp |-> Rsp("Success", <<>>),
          st |-> [zs EXCEPT ![cn][name] =
                     WithoutFields(@, {AsBytes(values[i]) : i \in 1..Len(values)})]]

\* The order a fetch response lists its elements in.  The source does not
\* fix it: zrange reverses the list it is given and zrevrange does not.  It
\* is either the sort order asked for or its reverse.
Listings == {"in_order", "reversed"}
Listed(xs, listing) == IF listing = "in_order" THEN xs ELSE Reverse(xs)

\* The elements of ranks start_rank (inclusive) to end_rank (exclusive) of
\* the sort order; ranks are not negative here.
Remote_sorted_set_fetch_by_rank(zs, cn, name, start_rank, end_rank, sort_order, listing, fault) ==
    IF fault # "ok" THEN FaultRsp(fault)
    ELSE IF start_rank > end_rank THEN ErrorRsp("InvalidArgumentException")
    ELSE IF DOMAIN zs[cn][name] = {} THEN Rsp("Miss", <<>>)
    ELSE LET all == InSortOrder(zs[cn][name], sort_order)
             to == IF end_rank < Len(all) THEN end_rank ELSE Len(all)
         IN Rsp("Hit", Listed(SubSeq(all, start_rank + 1, to), listing))

\* The elements whose score is from min_score to max_score, both inclusive,
\* in the sort order, less the first offset of them and at most count.
Remote_sorted_set_fetch_by_score(zs, cn, name, min_score, max_score, sort_order, offset, count, listing, fault) ==
    IF fault # "ok" THEN FaultRsp(fault)
    ELSE IF offset.k \notin {"none", "int"} \/ count.k \notin {"none", "int"}
    THEN ErrorRsp("InvalidArgumentException")
    ELSE IF DOMAIN zs[cn][name] = {} THEN Rsp("Miss", <<>>)
    ELSE LET all == SelectSeq(InSortOrder(zs[cn][name], sort_order),
                              LAMBDA e : min_score <= e[2] /\ e[2] <= max_score)
             from == IF offset.k = "int" THEN offset.n ELSE 0
             to == IF count.k = "int" /\ from + count.n < Len(all) THEN from + count.n
                   ELSE Len(all)
         IN Rsp("Hit", Listed(SubSeq(all, from + 1, to), listing))

Call(op, cn, key, value, ttl, rsp) ==
    [op |-> op, cache |-> cn, key |-> key, value |-> value, ttl |-> ttl, rtype |-> rsp.type,
     cause |-> rsp.inner_exception.cls]

(* ------------------------- error translation --------------------------- *)

\* match err.inner_exception: case errors.TimeoutException: ... is a value
\* pattern: it compares the inner exception with the class object by ==.
convert_momento_to_redis_errors(err) ==
    IF err.inner_exception = ExcClass("TimeoutException") THEN "TimeoutError"
    ELSE IF err.inner_exception = ExcClass("AuthenticationException") THEN "AuthenticationError"
    ELSE IF err.inner_exception = ExcClass("ServerUnavailableException") THEN "ConnectionError"
    ELSE "RedisError"

(* ------------------------- outcome of a command ------------------------ *)

NOT_IMPL_ERR == " is not yet implemented in MomentoRedisClient. Please drop by our Discord at https://discord.com/invite/3HkAKjUZGq , or contact us at support@momentohq.com, and let us know what APIs you need!"
\* The legacy file's text has no leading blank.
LEGACY_NOT_IMPL_ERR == "is not yet implemented in MomentoRedisClient. Please drop by our Discord at https://discord.com/invite/3HkAKjUZGq , or contact us at support@momentohq.com, and let us know what APIs you need!"

Returns(out, st, calls) ==
    [ret |-> "return", out |-> out, exc |-> "", msg |-> <<>>, st |-> st, calls |-> calls]
Raises(exc, msg, st, calls) ==
    [ret |-> "raise", out |-> NoneV, exc |-> exc, msg |-> msg, st |-> st, calls |-> calls]

(* ------------------------------- get ----------------------------------- *)

\* A get that has no branch for Miss.
client_get_without_miss(st, cn, name, f) ==
    LET rsp == Remote_get(st, cn, name, f)
        calls == <<Call("get", cn, name, NoneV, PyNone, rsp)>>
    IN IF rsp.type = "Hit" THEN Returns(BytesV(rsp.value), st, calls)
       ELSE IF rsp.type = "Error"
       THEN Raises(convert_momento_to_redis_errors(rsp), <<>>, st, calls)
       ELSE Raises("UnknownException", <<>>, st, calls)

client_get(st, cn, name, f) ==
    LET rsp == Remote_get(st, cn, name, f)
        calls == <<Call("get", cn, name, NoneV, PyNone, rsp)>>
    IN IF rsp.type = "Hit" THEN Returns(BytesV(rsp.value), st, calls)
       ELSE IF rsp.type = "Miss" THEN Returns(NoneV, st, calls)
       ELSE IF rsp.type = "Error"
       THEN Raises(convert_momento_to_redis_errors(rsp), <<>>, st, calls)
       ELSE Raises("UnknownException", <<>>, st, calls)

wrapper_get(st, cn, name, f) ==
    LET rsp == Remote_get(st, cn, name, f)
        calls == <<Call("get", cn, name, NoneV, PyNone, rsp)>>
    IN IF rsp.type = "Hit" THEN Returns(BytesV(rsp.value), st, calls)
       ELSE IF rsp.type = "Miss" THEN Returns(NoneV, st, calls)
       ELSE IF rsp.type = "Error"
       THEN Raises(convert_momento_to_redis_errors(rsp), <<>>, st, calls)
       ELSE Returns(NoneV, st, calls)

\* The legacy get reads the cache named "default" and returns value_string.
legacy_get(st, cn, name, f) ==
    LET rsp == Remote_get(st, "default", name, f)
        calls == <<Call("get", "default", name, NoneV, PyNone, rsp)>>
    IN IF rsp.type = "Hit"
       THEN IF Utf8Valid(rsp.value) THEN Returns(StrV(Utf8Decode(rsp.value)), st, calls)
            ELSE Raises("UnicodeDecodeError", <<>>, st, calls)
       ELSE IF rsp.type = "Miss" THEN Returns(NoneV, st, calls)
       ELSE IF rsp.type = "Error"
       THEN Raises(convert_momento_to_redis_errors(rsp), <<>>, st, calls)
       ELSE Returns(NoneV, st, calls)

(* ------------------------------ setnx ---------------------------------- *)

\* A setnx that writes with the unconditional set.
client_setnx_unconditional(st, t, cn, name, value0, f) ==
    LET value == IF value0.t \notin {"str", "bytes"} THEN StrV(PyStr(value0.v[1])) ELSE value0
        r == Remote_set(st, t, cn, name, value, PyNone, f)
        calls == <<Call("set", cn, name, value, PyNone, r.rsp)>>
    IN IF r.rsp.type = "Success" THEN Returns(TrueV, r.st, calls)
       ELSE IF r.rsp.type = "Error"
       THEN Raises(convert_momento_to_redis_errors(r.rsp), <<>>, r.st, calls)
       ELSE Raises("UnknownException", <<>>, r.st, calls)

client_setnx(st, t, cn, name, value0, f) ==
    LET value == IF value0.t \notin {"str", "bytes"} THEN StrV(PyStr(value0.v[1])) ELSE value0
        r == Remote_set_if_not_exists(st, t, cn, name, value, PyNone, f)
        calls == <<Call("set_if_not_exists", cn, name, value, PyNone, r.rsp)>>
    IN IF r.rsp.type = "Stored" THEN Returns(TrueV, r.st, calls)
       ELSE IF r.rsp.type = "NotStored" THEN Returns(FalseV, r.st, calls)
       ELSE IF r.rsp.type = "Error"
       THEN Raises(convert_momento_to_redis_errors(r.rsp), <<>>, r.st, calls)
       ELSE Raises("UnknownException", <<>>, r.st, calls)

\* A setnx that reads the key and writes it when the read missed.
wrapper_setnx_read_then_write(st, t, cn, name, value, f) ==
    LET g == Remote_get(st, cn, name, f)
        r == Remote_set(st, t, cn, name, value, PyNone, f)
        c1 == Call("get", cn, name, NoneV, PyNone, g)
        c2 == Call("set", cn, name, value, PyNone, r.rsp)
    IN IF g.type = "Error" THEN Raises(convert_momento_to_redis_errors(g), <<>>, st, <<c1>>)
       ELSE IF g.type = "Hit" THEN Returns(FalseV, st, <<c1>>)
       ELSE IF r.rsp.type = "Error"
       THEN Raises(convert_momento_to_redis_errors(r.rsp), <<>>, r.st, <<c1, c2>>)
       ELSE Returns(TrueV, r.st, <<c1, c2>>)

\* The same text in both wrapper files.
wrapper_setnx(st, t, cn, name, value, f) ==
    LET r == Remote_set_if_not_exists(st, t, cn, name, value, PyNone, f)
        calls == <<Call("set_if_not_exists", cn, name, value, PyNone, r.rsp)>>
    IN IF r.rsp.type = "Stored" THEN Returns(TrueV, r.st, calls)
       ELSE IF r.rsp.type = "NotStored" THEN Returns(FalseV, r.st, calls)
       ELSE IF r.rsp.type = "Error"
       THEN Raises(convert_momento_to_redis_errors(r.rsp), <<>>, r.st, calls)
       ELSE Returns(NoneV, r.st, calls)

(* ------------------------------- set ----------------------------------- *)

\* The options of set as the caller passes them: a record of the keyword
\* arguments given; an option that is not in it was omitted.
OptionNames == {"ex", "px", "nx", "xx", "keepttl", "get", "exat", "pxat"}
NoOpts == [n \in {} |-> Unset]
Opt(o, n) == IF n \in DOMAIN o THEN o[n] ELSE Unset

\* An omitted argument takes the default of the signature.
Default(a, d) == IF a.k = "unset" THEN d ELSE a
IsInt(a) == a.k \in {"int", "bool"}

\* The client's defaults: ex=None, px=None, nx=False, xx=False,
\* keepttl=False, get=False, exat=None, pxat=None.
client_defaults(o) ==
    [ex |-> Default(Opt(o, "ex"), PyNone), px |-> Default(Opt(o, "px"), PyNone),
     nx |-> Default(Opt(o, "nx"), PyFalse), xx |-> Default(Opt(o, "xx"), PyFalse),
     keepttl |-> Default(Opt(o, "keepttl"), PyFalse), get |-> Default(Opt(o, "get"), PyFalse),
     exat |-> Default(Opt(o, "exat"), PyNone), pxat |-> Default(Opt(o, "pxat"), PyNone)]

\* The wrappers' defaults: every option defaults to ... (Ellipsis).
wrapper_defaults(o) == [n \in OptionNames |-> Default(Opt(o, n), Ellipsis)]

\* The TTL the client derives; k = "raise" when it raises UnknownException.
client_set_ttl(a, t) ==
    IF a.ex.k # "none"
    THEN IF IsInt(a.ex) THEN TimeDelta(a.ex.n)
         ELSE IF a.ex.k = "td" THEN a.ex
         ELSE Arg("raise", 0)
    ELSE IF a.px.k # "none"
    THEN IF IsInt(a.px) THEN TimeDelta(TruncDiv1000(a.px.n))
         ELSE IF a.px.k = "td" THEN a.px
         ELSE PyNone
    ELSE IF a.exat.k # "none"
    THEN IF IsInt(a.exat) THEN TimeDelta(a.exat.n - t) ELSE PyNone
    ELSE IF a.pxat.k # "none"
    THEN IF IsInt(a.pxat) THEN TimeDelta(a.pxat.n - t) ELSE Arg("TypeError", 0)
    ELSE PyNone

client_set(st, t, cn, name, value0, o, f) ==
    LET a == client_defaults(o)
        value == IF value0.t \in {"float", "int"} THEN StrV(PyStr(value0.v[1])) ELSE value0
        ttl == client_set_ttl(a, t)
    IN IF Truthy(a.xx) THEN Raises("NotImplementedError", <<"SetOption XX", NOT_IMPL_ERR>>, st, <<>>)
       ELSE IF Truthy(a.get) THEN Raises("NotImplementedError", <<"SetOption GET", NOT_IMPL_ERR>>, st, <<>>)
       ELSE IF Truthy(a.keepttl)
       THEN Raises("NotImplementedError", <<"SetOption KEEPTTL", NOT_IMPL_ERR>>, st, <<>>)
       ELSE IF ttl.k = "raise" THEN Raises("UnknownException", <<>>, st, <<>>)
       ELSE IF ttl.k = "TypeError" THEN Raises("TypeError", <<>>, st, <<>>)
       ELSE IF Truthy(a.nx)
       THEN LET r == Remote_set_if_not_exists(st, t, cn, name, value, ttl, f)
                calls == <<Call("set_if_not_exists", cn, name, value, ttl, r.rsp)>>
            IN IF r.rsp.type = "Error"
               THEN Raises(convert_momento_to_redis_errors(r.rsp), <<>>, r.st, calls)
               ELSE IF r.rsp.type = "NotStored" THEN Returns(FalseV, r.st, calls)
               ELSE IF r.rsp.type = "Stored" THEN Returns(TrueV, r.st, calls)
               ELSE Raises("UnknownException", <<>>, r.st, calls)
       ELSE LET r == Remote_set(st, t, cn, name, value, ttl, f)
                calls == <<Call("set", cn, name, value, ttl, r.rsp)>>
            IN IF r.rsp.type = "Error"
               THEN Raises(convert_momento_to_redis_errors(r.rsp), <<>>, r.st, calls)
               ELSE IF r.rsp.type = "Success" THEN Returns(TrueV, r.st, calls)
               ELSE Raises("UnknownException", <<>>, r.st, calls)

\* The TTL the wrappers derive (the same text in both files); k names the
\* exception when the derivation raises.
wrapper_set_ttl(a, t) ==
    IF a.ex.k # "none" THEN a.ex
    ELSE IF a.px.k # "none"
    THEN IF IsInt(a.px) THEN PyInt(TruncDiv1000(a.px.n)) ELSE Arg("TypeError", 0)
    ELSE IF a.exat.k # "none"
    THEN IF IsInt(a.exat) THEN PyInt(a.exat.n - t) ELSE Arg("TypeError", 0)
    ELSE IF a.pxat.k # "none"
    THEN IF IsInt(a.pxat) THEN PyInt(a.pxat.n - TruncDiv1000(t)) ELSE Arg("TypeError", 0)
    ELSE IF Truthy(a.keepttl) THEN Arg("NotImplementedError", 0)
    ELSE PyNone

\* The body both wrapper files share, after the value is normalised; err is
\* the file's NOT_IMPL_ERR.
wrapper_set_body(st, t, cn, name, value, o, f, err) ==
    LET a == wrapper_defaults(o)
        ttl == wrapper_set_ttl(a, t)
    IN IF ttl.k = "TypeError" THEN Raises("TypeError", <<>>, st, <<>>)
       ELSE IF ttl.k = "NotImplementedError"
       THEN Raises("NotImplementedError", <<"SetOption KEEPTTL", err>>, st, <<>>)
       ELSE IF Truthy(a.nx) THEN wrapper_setnx(st, t, cn, name, value, f)
       ELSE IF Truthy(a.xx) THEN Raises("NotImplementedError", <<"SetOption XX", err>>, st, <<>>)
       ELSE IF Truthy(a.get) THEN Raises("NotImplementedError", <<"SetOption GET", err>>, st, <<>>)
       ELSE LET r == Remote_set(st, t, cn, name, value, ttl, f)
                calls == <<Call("set", cn, name, value, ttl, r.rsp)>>
            IN IF r.rsp.type = "Error"
               THEN Raises(convert_momento_to_redis_errors(r.rsp), <<>>, r.st, calls)
               ELSE Returns(TrueV, r.st, calls)

wrapper_set(st, t, cn, name, value0, o, f) ==
    wrapper_set_body(st, t, cn, name,
                     IF value0.t = "int" THEN StrV(PyStr(value0.v[1])) ELSE value0, o, f,
                     NOT_IMPL_ERR)

legacy_set(st, t, cn, name, value, o, f) ==
    wrapper_set_body(st, t, cn, name, value, o, f, LEGACY_NOT_IMPL_ERR)

(* ------------------------------ setex ---------------------------------- *)

client_setex(st, t, cn, name, time0, value0, f) ==
    LET time == IF IsInt(time0) THEN TimeDelta(time0.n) ELSE time0
        value == IF value0.t \notin {"str", "bytes"} THEN StrV(PyStr(value0.v[1])) ELSE value0
        r == Remote_set(st, t, cn, name, value, time, f)
        calls == <<Call("set", cn, name, value, time, r.rsp)>>
    IN IF r.rsp.type = "Error"
       THEN Raises(convert_momento_to_redis_errors(r.rsp), <<>>, r.st, calls)
       ELSE Returns(TrueV, r.st, calls)

wrapper_setex(st, t, cn, name, time0, value, f) ==
    LET time == IF IsInt(time0) THEN TimeDelta(time0.n) ELSE time0
        r == Remote_set(st, t, cn, name, value, time, f)
        calls == <<Call("set", cn, name, value, time, r.rsp)>>
    IN IF r.rsp.type = "Error"
       THEN Raises(convert_momento_to_redis_errors(r.rsp), <<>>, r.st, calls)
       ELSE Returns(TrueV, r.st, calls)

legacy_setex(st, t, cn, name, time, value, f) ==
    LET r == Remote_set(st, t, cn, name, value, time, f)
        calls == <<Call("set", cn, name, value, time, r.rsp)>>
    IN IF r.rsp.type = "Error"
       THEN Raises(convert_momento_to_redis_errors(r.rsp), <<>>, r.st, calls)
       ELSE Returns(TrueV, r.st, calls)

(* ------------------------------ delete --------------------------------- *)

RECURSIVE client_delete_loop(_, _, _, _, _, _)
\* for name in names: one remote delete each; only a Success is counted.
client_delete_loop(st, cn, names, fs, num_deleted, calls) ==
    IF names = <<>> THEN Returns(IntV(num_deleted), st, calls)
    ELSE LET r == Remote_delete(st, cn, Head(names), Head(fs))
             c == Call("delete", cn, Head(names), NoneV, PyNone, r.rsp)
         IN client_delete_loop(r.st, cn, Tail(names), Tail(fs),
                               IF r.rsp.type = "Success" THEN num_deleted + 1 ELSE num_deleted,
                               Append(calls, c))

client_delete(st, cn, names, fs) == client_delete_loop(st, cn, names, fs, 0, <<>>)

\* multi_delete builds one coroutine per key and hands them to
\* asyncio.gather, which is never awaited: no coroutine runs, and iterating
\* the pending future raises RuntimeError.  With no key the future is done
\* and the result list is empty.
multi_delete(st, cn, keys) ==
    IF keys = <<>> THEN Returns(IntV(0), st, <<>>)
    ELSE Raises("RuntimeError", <<>>, st, <<>>)

wrapper_delete(st, cn, names) == multi_delete(st, cn, names)

(* ---------------------------- mget / mset ------------------------------ *)

\* multi_get: one coroutine per key, handed to asyncio.gather; the future
\* gather returns is iterated without being awaited.  No coroutine runs, so
\* no remote get is issued; the first item of the iteration is the pending
\* future itself, which is no response, and the second step raises
\* RuntimeError.  With no key the future is done and holds [].
multi_get(st, cn, keys) ==
    IF keys = <<>> THEN Returns(ListV(<<>>), st, <<>>)
    ELSE Raises("RuntimeError", <<>>, st, <<>>)

\* multi_set: the same over the items of the mapping; True with no item.
multi_set(st, cn, mapping) ==
    IF mapping = <<>> THEN Returns(TrueV, st, <<>>)
    ELSE Raises("RuntimeError", <<>>, st, <<>>)

wrapper_mget(st, cn, keys) == multi_get(st, cn, keys)
wrapper_mset(st, cn, mapping) == multi_set(st, cn, mapping)

(* ------------------------ increment / decrement ------------------------ *)

\* -amount and amount as handed to the remote increment; -(...) of an
\* Ellipsis is a TypeError.
NotNegated(a) == IF IsInt(a) THEN IntV(a.n) ELSE Val("TypeError", <<>>)
Negated(a) == IF IsInt(a) THEN IntV(-a.n) ELSE Val("TypeError", <<>>)
AsAmount(a) == IF IsInt(a) THEN IntV(a.n) ELSE EllipsisV

increment_call(st, cn, name, amount, f, strict) ==
    IF amount.t = "TypeError" THEN Raises("TypeError", <<>>, st, <<>>)
    ELSE LET r == Remote_increment(st, cn, name, amount, f)
             calls == <<Call("increment", cn, name, amount, PyNone, r.rsp)>>
         IN IF r.rsp.type = "Success" THEN Returns(IntV(r.rsp.value[1]), r.st, calls)
            ELSE IF r.rsp.type = "Error"
            THEN Raises(convert_momento_to_redis_errors(r.rsp), <<>>, r.st, calls)
            ELSE IF strict THEN Raises("UnknownException", <<>>, r.st, calls)
            ELSE Returns(NoneV, r.st, calls)

client_decrby(st, cn, name, amount, f) ==
    increment_call(st, cn, name, Negated(Default(amount, PyInt(1))), f, TRUE)
client_decr(st, cn, name, amount, f) == client_decrby(st, cn, name, amount, f)
client_incrby(st, cn, name, amount, f) ==
    increment_call(st, cn, name, AsAmount(Default(amount, PyInt(1))), f, TRUE)
client_incr(st, cn, name, amount, f) == client_incrby(st, cn, name, amount, f)

wrapper_decr(st, cn, name, amount, f) ==
    increment_call(st, cn, name, Negated(Default(amount, PyInt(1))), f, FALSE)
wrapper_decrby(st, cn, name, amount, f) ==
    increment_call(st, cn, name, Negated(Default(amount, PyInt(1))), f, FALSE)
wrapper_incr(st, cn, name, amount, f) ==
    increment_call(st, cn, name, AsAmount(Default(amount, PyInt(1))), f, FALSE)
wrapper_incrby(st, cn, name, amount, f) ==
    increment_call(st, cn, name, AsAmount(Default(amount, PyInt(1))), f, FALSE)

\* In the legacy file amount defaults to ... (Ellipsis).
legacy_decr(st, cn, name, amount, f) ==
    increment_call(st, cn, name, Negated(Default(amount, Ellipsis)), f, FALSE)
legacy_decrby(st, cn, name, amount, f) ==
    increment_call(st, cn, name, Negated(Default(amount, Ellipsis)), f, FALSE)
legacy_incr(st, cn, name, amount, f) ==
    increment_call(st, cn, name, AsAmount(Default(amount, Ellipsis)), f, FALSE)
legacy_incrby(st, cn, name, amount, f) ==
    increment_call(st, cn, name, AsAmount(Default(amount, Ellipsis)), f, FALSE)

(* ----------------------- unimplemented commands ------------------------ *)

\* A message is the sequence of the pieces it is concatenated from; the
\* blank that ends a literal such as "hello " is a piece of its own.
\* A stub that returns None.
not_implemented_silent(st, name) == Returns(NoneV, st, <<>>)

\* raise NotImplementedError(f"{name}{NOT_IMPL_ERR}")
not_implemented(st, name) == Raises("NotImplementedError", <<name, NOT_IMPL_ERR>>, st, <<>>)

\* The client's stubs: <<the method, the name it hands to _not_implemented>>.
client_stubs == {
    <<"acl_cat", "acl_cat">>, <<"acl_deluser", "acl_deluser">>, <<"acl_dryrun", "acl_dryrun">>,
    <<"acl_genpass", "acl_genpass">>, <<"acl_getuser", "acl_getuser">>, <<"acl_help", "acl_help">>,
    <<"acl_list", "acl_list">>, <<"acl_load", "acl_load">>, <<"acl_log", "acl_log">>,
    <<"acl_log_reset", "acl_log_reset">>, <<"acl_save", "acl_save">>,
    <<"acl_setuser", "acl_setuser">>, <<"acl_users", "acl_users">>, <<"acl_whoami", "acl_whoami">>,
    <<"append", "append">>, <<"auth", "auth">>, <<"bf", "bf">>, <<"bgrewriteaof", "bgrewriteaof">>,
    <<"bgsave", "bgsave">>, <<"bitcount", "bitcount">>, <<"bitfield", "bitfield">>,
    <<"bitfield_ro", "bitfield_ro">>, <<"bitop", "bitop">>, <<"bitpos", "bitpos">>,
    <<"blmove", "blmove">>, <<"blmpop", "blmpop">>, <<"blpop", "blpop">>, <<"brpop", "brpop">>,
    <<"brpoplpush", "brpoplpush">>, <<"bzmpop", "bzmpop">>, <<"bzpopmax", "bzpopmax">>,
    <<"bzpopmin", "bzpopmin">>, <<"cf", "cf">>, <<"client_getname", "client_getname">>,
    <<"client_getredir", "client_getredir">>, <<"client_id", "client_id">>,
    <<"client_info", "client_info">>, <<"client_kill", "client_kill">>,
    <<"client_kill_filter", "client_kill_filter">>, <<"client_list", "client_list">>,
    <<"client_no_evict", "client_no_evict">>, <<"client_no_touch", "client_no_touch">>,
    <<"client_pause", "client_pause">>, <<"client_reply", "client_reply">>,
    <<"client_setname", "client_setname">>, <<"client_tracking", "client_tracking">>,
    <<"client_tracking_off", "client_tracking_off">>,
    <<"client_tracking_on", "client_tracking_on">>,
    <<"client_trackinginfo", "client_trackinginfo">>, <<"client_unblock", "client_unblock">>,
    <<"client_unpause", "client_unpause">>, <<"cluster", "cluster">>, <<"cms", "cms">>,
    <<"command", "command">>, <<"command_count", "command_count">>,
    <<"command_docs", "command_docs">>, <<"command_getkeys", "command_getkeys">>,
    <<"command_getkeysandflags", "command_getkeysandflags">>, <<"command_info", "command_info">>,
    <<"command_list", "command_list">>, <<"config_get", "config_get">>,
    <<"config_resetstat", "config_resetstat">>, <<"config_rewrite", "config_rewrite">>,
    <<"config_set", "config_set">>, <<"copy", "copy">>, <<"dbsize", "dbsize">>,
    <<"debug_object", "debug_object">>, <<"debug_segfault", "debug_segfault">>, <<"dump", "dump">>,
    <<"echo", "echo">>, <<"eval", "eval">>, <<"eval_ro", "eval_ro">>, <<"evalsha", "evalsha">>,
    <<"evalsha_ro", "evalsha_ro">>, <<"execute_command", "execute_command">>,
    <<"exists", "exists">>, <<"expire", "expire">>, <<"expireat", "expireat">>,
    <<"expiretime", "expiretime">>, <<"failover", "failover">>, <<"fcall", "fcall">>,
    <<"fcall_ro", "fcall_ro">>, <<"flushall", "flushall">>, <<"flushdb", "flushdb">>,
    <<"ft", "ft">>, <<"function_delete", "function_delete">>, <<"function_dump", "function_dump">>,
    <<"function_flush", "function_flush">>, <<"function_kill", "function_kill">>,
    <<"function_list", "function_list">>, <<"function_load", "function_load">>,
    <<"function_restore", "function_restore">>, <<"function_stats", "function_stats">>,
    <<"geoadd", "geoadd">>, <<"geodist", "geodist">>, <<"geohash", "geohash">>,
    <<"geopos", "geopos">>, <<"georadius", "georadius">>,
    <<"georadiusbymember", "georadiusbymember">>, <<"geosearch", "geosearch">>,
    <<"geosearchstore", "geosearchstore">>, <<"getbit", "getbit">>, <<"getdel", "getdel">>,
    <<"getex", "getex">>, <<"getrange", "getrange">>, <<"getset", "getset">>, <<"graph", "graph">>,
    <<"hdel", "hdel">>, <<"hello", "hello">>, <<"hexists", "hexists">>, <<"hget", "hget">>,
    <<"hgetall", "hgetall">>, <<"hincrby", "hincrby">>, <<"hincrbyfloat", "hincrbyfloat">>,
    <<"hkeys", "hkeys">>, <<"hlen", "hlen">>, <<"hmget", "hmget">>, <<"hmset", "hmset">>,
    <<"hrandfield", "hrandfield">>, <<"hscan", "hscan">>, <<"hscan_iter", "hscan_iter">>,
    <<"hset", "hset">>, <<"hsetnx", "hsetnx">>, <<"hstrlen", "hstrlen">>, <<"hvals", "hvals">>,
    <<"incrbyfloat", "incrbyfloat">>, <<"info", "info">>, <<"json", "json">>, <<"keys", "keys">>,
    <<"lastsave", "lastsave">>, <<"latency_doctor", "latency_doctor">>,
    <<"latency_graph", "latency_graph">>, <<"latency_histogram", "latency_histogram">>,
    <<"latency_history", "latency_history">>, <<"latency_latest", "latency_latest">>,
    <<"latency_reset", "latency_reset">>, <<"lcs", "lcs">>, <<"lindex", "lindex">>,
    <<"linsert", "linsert">>, <<"llen", "llen">>, <<"lmove", "lmove">>, <<"lmpop", "lmpop">>,
    <<"lolwut", "lolwut">>, <<"lpop", "lpop">>, <<"lpos", "lpos">>, <<"lpush", "lpush">>,
    <<"lpushx", "lpushx">>, <<"lrange", "lrange">>, <<"lrem", "lrem">>, <<"lset", "lset">>,
    <<"ltrim", "ltrim">>, <<"memory_doctor", "memory_doctor">>, <<"memory_help", "memory_help">>,
    <<"memory_malloc_stats", "memory_malloc_stats">>, <<"memory_purge", "memory_purge">>,
    <<"memory_stats", "memory_stats">>, <<"memory_usage", "memory_usage">>, <<"mget", "mget">>,
    <<"migrate", "migrate">>, <<"module_list", "module_list">>, <<"module_load", "module_load">>,
    <<"module_loadex", "module_loadex">>, <<"module_unload", "module_unload">>, <<"move", "move">>,
    <<"mset", "mset">>, <<"msetnx", "msetnx">>, <<"object", "object">>, <<"persist", "persist">>,
    <<"pexpire", "pexpire">>, <<"pexpireat", "pexpireat">>, <<"pexpiretime", "pexpiretime">>,
    <<"pfadd", "pfadd">>, <<"pfcount", "pfcount">>, <<"pfmerge", "pfmerge">>, <<"ping", "ping">>,
    <<"psetex", "psetex">>, <<"psync", "psync">>, <<"pttl", "pttl">>, <<"publish", "publish">>,
    <<"pubsub_channels", "pubsub_channels">>, <<"pubsub_numpat", "pubsub_numpat">>,
    <<"pubsub_numsub", "pubsub_numsub">>, <<"quit", "quit">>, <<"randomkey", "randomkey">>,
    <<"readonly", "readonly">>, <<"readwrite", "readwrite">>,
    <<"register_script", "register_script">>, <<"rename", "rename">>, <<"renamenx", "renamenx">>,
    <<"replicaof", "replicaof">>, <<"reset", "reset">>, <<"restore", "restore">>,
    <<"role", "role">>, <<"rpop", "rpop">>, <<"rpoplpush", "rpoplpush">>, <<"rpush", "rpush">>,
    <<"rpushx", "rpushx">>, <<"sadd", "sadd">>, <<"save", "save">>, <<"scan", "scan">>,
    <<"scan_iter", "scan_iter">>, <<"scard", "scard">>, <<"script_debug", "script_debug">>,
    <<"script_exists", "script_exists">>, <<"script_flush", "script_flush">>,
    <<"script_kill", "script_kill">>, <<"script_load", "script_load">>, <<"sdiff", "sdiff">>,
    <<"sdiffstore", "sdiffstore">>, <<"select", "select">>, <<"sentinel", "sentinel">>,
    <<"sentinel_ckquorum", "sentinel_ckquorum">>, <<"sentinel_failover", "sentinel_failover">>,
    <<"sentinel_flushconfig", "sentinel_flushconfig">>,
    <<"sentinel_get_master_addr_by_name", "sentinel_get_master_addr_by_name">>,
    <<"sentinel_master", "sentinel_master">>, <<"sentinel_masters", "sentinel_masters">>,
    <<"sentinel_monitor", "sentinel_monitor">>, <<"sentinel_remove", "sentinel_remove">>,
    <<"sentinel_reset", "sentinel_reset">>, <<"sentinel_sentinels", "sentinel_sentinels">>,
    <<"sentinel_set", "sentinel_set">>, <<"sentinel_slaves", "sentinel_slaves">>,
    <<"setbit", "setbit">>, <<"setrange", "setrange">>, <<"shutdown", "shutdown">>,
    <<"sinter", "sinter">>, <<"sintercard", "sintercard">>, <<"sinterstore", "sinterstore">>,
    <<"sismember", "sismember">>, <<"slaveof", "slaveof">>, <<"slowlog_get", "slowlog_get">>,
    <<"slowlog_len", "slowlog_len">>, <<"slowlog_reset", "slowlog_reset">>,
    <<"smembers", "smembers">>, <<"smismember", "smismember">>, <<"smove", "smove">>,
    <<"sort", "sort">>, <<"sort_ro", "sort_ro">>, <<"spop", "spop">>,
    <<"srandmember", "srandmember">>, <<"srem", "srem">>, <<"sscan", "sscan">>,
    <<"sscan_iter", "sscan_iter">>, <<"stralgo", "stralgo">>, <<"strlen", "strlen">>,
    <<"substr", "substr">>, <<"sunion", "sunion">>, <<"sunionstore", "sunionstore">>,
    <<"swapdb", "swapdb">>, <<"sync", "sync">>, <<"tdigest", "tdigest">>, <<"time", "time">>,
    <<"topk", "topk">>, <<"touch", "touch">>, <<"ts", "ts">>, <<"ttl", "ttl">>, <<"type", "type">>,
    <<"unlink", "unlink">>, <<"unwatch", "unwatch">>, <<"wait", "wait">>, <<"waitaof", "waitaof">>,
    <<"watch", "watch">>, <<"xack", "xack">>, <<"xadd", "xadd">>, <<"xautoclaim", "xautoclaim">>,
    <<"xclaim", "xclaim">>, <<"xdel", "xdel">>, <<"xgroup_create", "xgroup_create">>,
    <<"xgroup_createconsumer", "xgroup_createconsumer">>,
    <<"xgroup_delconsumer", "xgroup_delconsumer">>, <<"xgroup_destroy", "xgroup_destroy">>,
    <<"xgroup_setid", "xgroup_setid">>, <<"xinfo_consumers", "xinfo_consumers">>,
    <<"xinfo_groups", "xinfo_groups">>, <<"xinfo_stream", "xinfo_stream">>, <<"xlen", "xlen">>,
    <<"xpending", "xpending">>, <<"xpending_range", "xpending_range">>, <<"xrange", "xrange">>,
    <<"xread", "xread">>, <<"xreadgroup", "xreadgroup">>, <<"xrevrange", "xrevrange">>,
    <<"xtrim", "xtrim">>, <<"zadd", "zadd">>, <<"zcard", "zcard">>, <<"zcount", "zcount">>,
    <<"zdiff", "zdiff">>, <<"zdiffstore", "zdiffstore">>, <<"zincrby", "zincrby">>,
    <<"zinter", "zinter">>, <<"zintercard", "zintercard">>, <<"zinterstore", "zinterstore">>,
    <<"zlexcount", "zlexcount">>, <<"zmpop", "zmpop">>, <<"zmscore", "zmscore">>,
    <<"zpopmax", "zpopmax">>, <<"zpopmin", "zpopmin">>, <<"zrandmember", "zrandmember">>,
    <<"zrange", "zrange">>, <<"zrangebylex", "zrangebylex">>, <<"zrangebyscore", "zrangebyscore">>,
    <<"zrangestore", "zrangestore">>, <<"zrank", "zrank">>, <<"zrem", "zrem">>,
    <<"zremrangebylex", "zremrangebylex">>, <<"zremrangebyrank", "zremrangebyrank">>,
    <<"zremrangebyscore", "zremrangebyscore">>, <<"zrevrange", "zrevrange">>,
    <<"zrevrangebylex", "zrevrangebylex">>, <<"zrevrangebyscore", "zrevrangebyscore">>,
    <<"zrevrank", "zrevrank">>, <<"zscan", "zscan">>, <<"zscan_iter", "zscan_iter">>,
    <<"zscore", "zscore">>, <<"zunion", "zunion">>, <<"zunionstore", "zunionstore">>}

\* The wrapper's stubs: <<the method, the name its message begins with>>.
wrapper_stubs == {
    <<"command_docs", "command_docs">>, <<"debug_segfault", "debug_segfault">>,
    <<"latency_doctor", "latency_doctor">>, <<"latency_graph", "latency_graph">>,
    <<"memory_doctor", "memory_doctor">>, <<"memory_help", "memory_help">>,
    <<"latency_histogram", "latency_histogram">>, <<"hello", "hello">>, <<"failover", "failover">>,
    <<"script_debug", "script_debug">>, <<"command_info", "command_info">>}

\* raise NotImplementedError("<name> " + NOT_IMPL_ERR)
wrapper_stub(st, name) == Raises("NotImplementedError", <<name, " ", NOT_IMPL_ERR>>, st, <<>>)

(* ------------------------------- lists --------------------------------- *)

\* The bytes b as the response property hands them out: value_..._bytes
\* as they are, value_..._string decoded.
Decoded(t, b) == IF t = "bytes" THEN BytesV(b) ELSE StrV(Utf8Decode(b))

\* rpush(name, *values) of the wrapper: one list_concatenate_back.
wrapper_rpush(ls, cn, name, values, f) ==
    LET r == Remote_list_concatenate_back(ls, cn, name, values, f)
        calls == <<Call("list_concatenate_back", cn, name, NoneV, PyNone, r.rsp)>>
    IN IF r.rsp.type = "Success" THEN Returns(IntV(Len(values)), r.st, calls)
       ELSE IF r.rsp.type = "Error"
       THEN Raises(convert_momento_to_redis_errors(r.rsp), <<>>, r.st, calls)
       ELSE Returns(NoneV, r.st, calls)

\* The pushes of the legacy file spread *values into the positional
\* parameters of list_push_back and list_push_front, which are (cache_name,
\* list_name, value, ttl, truncate_..._to_size): more than three values are
\* a TypeError, and a second or third value arrives as ttl or as the size to
\* truncate to, where the remote client answers Error.
SpreadFault(values, f) ==
    IF f = "ok" /\ Len(values) > 1 THEN "InvalidArgumentException" ELSE f
PushParameters == 3

\* rpush(name, *values) of the legacy file: one list_push_back of the first
\* value.
legacy_rpush(ls, cn, name, values, f) ==
    LET r == Remote_list_push_back(ls, cn, name, values[1], SpreadFault(values, f))
        calls == <<Call("list_push_back", cn, name, values[1], PyNone, r.rsp)>>
    IN IF Len(values) = 0 \/ Len(values) > PushParameters
       THEN Raises("TypeError", <<>>, ls, <<>>)
       ELSE IF r.rsp.type = "Success" THEN Returns(IntV(Len(values)), r.st, calls)
       ELSE IF r.rsp.type = "Error"
       THEN Raises(convert_momento_to_redis_errors(r.rsp), <<>>, r.st, calls)
       ELSE Returns(NoneV, r.st, calls)

\* lpush(name, *values) of the wrapper: the values reversed, in one
\* list_concatenate_front.
wrapper_lpush(ls, cn, name, values, f) ==
    LET r == Remote_list_concatenate_front(ls, cn, name, Reverse(values), f)
        calls == <<Call("list_concatenate_front", cn, name, NoneV, PyNone, r.rsp)>>
    IN IF r.rsp.type = "Success" THEN Returns(IntV(Len(values)), r.st, calls)
       ELSE IF r.rsp.type = "Error"
       THEN Raises(convert_momento_to_redis_errors(r.rsp), <<>>, r.st, calls)
       ELSE Returns(NoneV, r.st, calls)

legacy_lpush(ls, cn, name, values, f) ==
    LET r == Remote_list_push_front(ls, cn, name, values[1], SpreadFault(values, f))
        calls == <<Call("list_push_front", cn, name, values[1], PyNone, r.rsp)>>
    IN IF Len(values) = 0 \/ Len(values) > PushParameters
       THEN Raises("TypeError", <<>>, ls, <<>>)
       ELSE IF r.rsp.type = "Success" THEN Returns(IntV(Len(values)), r.st, calls)
       ELSE IF r.rsp.type = "Error"
       THEN Raises(convert_momento_to_redis_errors(r.rsp), <<>>, r.st, calls)
       ELSE Returns(NoneV, r.st, calls)

\* llen is the same in the wrapper and in the legacy file: the length of a
\* Hit, 0 for a Miss.
wrapper_llen(ls, cn, name, f) ==
    LET rsp == Remote_list_length(ls, cn, name, f)
        calls == <<Call("list_length", cn, name, NoneV, PyNone, rsp)>>
    IN IF rsp.type = "Hit" THEN Returns(IntV(rsp.value[1]), ls, calls)
       ELSE IF rsp.type = "Miss" THEN Returns(IntV(0), ls, calls)
       ELSE IF rsp.type = "Error"
       THEN Raises(convert_momento_to_redis_errors(rsp), <<>>, ls, calls)
       ELSE Returns(NoneV, ls, calls)

\* xs[start:end] of Python: a negative index counts from the end, an index
\* beyond either end is clamped, and end is exclusive.
SliceIndex(i, n) == IF i < 0 THEN (IF n + i < 0 THEN 0 ELSE n + i) ELSE (IF i > n THEN n ELSE i)
Slice(xs, start, end) == SubSeq(xs, SliceIndex(start, Len(xs)) + 1, SliceIndex(end, Len(xs)))

\* The list xs of the remote as value_list_bytes or value_list_string.
ElementsV(t, xs) == ListV([i \in 1..Len(xs) |-> Decoded(t, xs[i])])

\* lrange of the wrapper: the whole list is fetched and sliced [start:end].
wrapper_lrange(ls, cn, name, start, end, f) ==
    LET rsp == Remote_list_fetch(ls, cn, name, f)
        calls == <<Call("list_fetch", cn, name, NoneV, PyNone, rsp)>>
    IN IF rsp.type = "Hit" THEN Returns(ElementsV("bytes", Slice(rsp.value, start, end)), ls, calls)
       ELSE IF rsp.type = "Miss" THEN Returns(ListV(<<>>), ls, calls)
       ELSE IF rsp.type = "Error"
       THEN Raises(convert_momento_to_redis_errors(rsp), <<>>, ls, calls)
       ELSE Returns(NoneV, ls, calls)

\* lrange of the legacy file refuses a start or an end that is not 0, and
\* returns the whole list as strings.
legacy_lrange(ls, cn, name, start, end, f) ==
    LET rsp == Remote_list_fetch(ls, cn, name, f)
        calls == <<Call("list_fetch", cn, name, NoneV, PyNone, rsp)>>
    IN IF start # 0
       THEN Raises("NotImplementedError", <<"ListRangeOption start" \o LEGACY_NOT_IMPL_ERR>>, ls, <<>>)
       ELSE IF end # 0
       THEN Raises("NotImplementedError", <<"ListRangeOption end" \o LEGACY_NOT_IMPL_ERR>>, ls, <<>>)
       ELSE IF rsp.type = "Hit" THEN Returns(ElementsV("str", rsp.value), ls, calls)
       ELSE IF rsp.type = "Miss" THEN Returns(ListV(<<>>), ls, calls)
       ELSE IF rsp.type = "Error"
       THEN Raises(convert_momento_to_redis_errors(rsp), <<>>, ls, calls)
       ELSE Returns(NoneV, ls, calls)

\* The message of the pops is a literal that names no command.
POP_ERR == "Cannot pop more then 1 element off list for now"

wrapper_lpop(ls, cn, name, count0, f) ==
    LET count == Default(count0, PyNone)
        r == Remote_list_pop_front(ls, cn, name, f)
        calls == <<Call("list_pop_front", cn, name, NoneV, PyNone, r.rsp)>>
    IN IF count.k # "none" THEN Raises("NotImplementedError", <<POP_ERR>>, ls, <<>>)
       ELSE IF r.rsp.type = "Hit" THEN Returns(BytesV(r.rsp.value), r.st, calls)
       ELSE IF r.rsp.type = "Miss" THEN Returns(NoneV, r.st, calls)
       ELSE IF r.rsp.type = "Error"
       THEN Raises(convert_momento_to_redis_errors(r.rsp), <<>>, r.st, calls)
       ELSE Returns(NoneV, r.st, calls)

wrapper_rpop(ls, cn, name, count0, f) ==
    LET count == Default(count0, PyNone)
        r == Remote_list_pop_back(ls, cn, name, f)
        calls == <<Call("list_pop_back", cn, name, NoneV, PyNone, r.rsp)>>
    IN IF count.k # "none" THEN Raises("NotImplementedError", <<POP_ERR>>, ls, <<>>)
       ELSE IF r.rsp.type = "Hit" THEN Returns(BytesV(r.rsp.value), r.st, calls)
       ELSE IF r.rsp.type = "Miss" THEN Returns(NoneV, r.st, calls)
       ELSE IF r.rsp.type = "Error"
       THEN Raises(convert_momento_to_redis_errors(r.rsp), <<>>, r.st, calls)
       ELSE Returns(NoneV, r.st, calls)

\* In the legacy file count defaults to ... (Ellipsis) and a Hit returns
\* value_string.
legacy_pop_hit(r, calls) ==
    IF Utf8Valid(r.rsp.value) THEN Returns(StrV(Utf8Decode(r.rsp.value)), r.st, calls)
    ELSE Raises("UnicodeDecodeError", <<>>, r.st, calls)

legacy_lpop(ls, cn, name, count0, f) ==
    LET count == Default(count0, Ellipsis)
        r == Remote_list_pop_front(ls, cn, name, f)
        calls == <<Call("list_pop_front", cn, name, NoneV, PyNone, r.rsp)>>
    IN IF count.k # "none" THEN Raises("NotImplementedError", <<POP_ERR>>, ls, <<>>)
       ELSE IF r.rsp.type = "Hit" THEN legacy_pop_hit(r, calls)
       ELSE IF r.rsp.type = "Miss" THEN Returns(NoneV, r.st, calls)
       ELSE IF r.rsp.type = "Error"
       THEN Raises(convert_momento_to_redis_errors(r.rsp), <<>>, r.st, calls)
       ELSE Returns(NoneV, r.st, calls)

legacy_rpop(ls, cn, name, count0, f) ==
    LET count == Default(count0, Ellipsis)
        r == Remote_list_pop_back(ls, cn, name, f)
        calls == <<Call("list_pop_back", cn, name, NoneV, PyNone, r.rsp)>>
    IN IF count.k # "none" THEN Raises("NotImplementedError", <<POP_ERR>>, ls, <<>>)
       ELSE IF r.rsp.type = "Hit" THEN legacy_pop_hit(r, calls)
       ELSE IF r.rsp.type = "Miss" THEN Returns(NoneV, r.st, calls)
       ELSE IF r.rsp.type = "Error"
       THEN Raises(convert_momento_to_redis_errors(r.rsp), <<>>, r.st, calls)
       ELSE Returns(NoneV, r.st, calls)

(* ------------------------------- hashes -------------------------------- *)

\* An optional dict or list argument: None, or its items in order.
NoItems == [none |-> TRUE, items |-> <<>>]
ItemsOf(xs) == [none |-> FALSE, items |-> xs]
\* not x: None and an empty dict or list are falsy.
Falsy(x) == x.none \/ x.items = <<>>

\* x if isinstance(x, (str, bytes)) else str(x)
Text(x) ==
    IF IsPayload(x) THEN x
    ELSE IF x.t = "int" THEN StrV(PyStr(x.v[1]))
    ELSE StrV(<<78, 111, 110, 101>>)

\* A Python dict is the sequence of its items in insertion order: d[k] = v
\* replaces the value of a key the dict has and appends a new key.
DictSet(d, k, v) ==
    IF \E i \in 1..Len(d) : d[i][1] = k
    THEN [i \in 1..Len(d) |-> IF d[i][1] = k THEN <<k, v>> ELSE d[i]]
    ELSE Append(d, <<k, v>>)

RECURSIVE DictUpdate(_, _)
DictUpdate(d, items) ==
    IF items = <<>> THEN d
    ELSE DictUpdate(DictSet(d, Head(items)[1], Head(items)[2]), Tail(items))

\* {items[i]: items[i+1] for i in range(0, len(items), 2)}
Pairs(items) == [i \in 1..(Len(items) \div 2) |-> <<items[2 * i - 1], items[2 * i]>>]

\* hset of the wrapper: the pair, then the mapping, then the items go into
\* items_to_set, which one dictionary_set_fields sends.
wrapper_hset(ds, cn, name, key, value, mapping, items, f) ==
    IF key.t = "none" /\ Falsy(mapping) /\ Falsy(items)
    THEN Raises("DataError", <<"'hset' with no key value pairs">>, ds, <<>>)
    ELSE IF ~items.none /\ Len(items.items) % 2 = 1
    THEN Raises("IndexError", <<>>, ds, <<>>)
    ELSE LET d1 == IF key.t # "none" THEN DictSet(<<>>, Text(key), Text(value)) ELSE <<>>
             d2 == IF mapping.none THEN d1
                   ELSE DictUpdate(d1, [i \in 1..Len(mapping.items) |->
                                           <<Text(mapping.items[i][1]), Text(mapping.items[i][2])>>])
             d3 == IF items.none THEN d2
                   ELSE DictUpdate(d2, Pairs([i \in 1..Len(items.items) |-> Text(items.items[i])]))
             r == Remote_dictionary_set_fields(ds, cn, name, d3, f)
             calls == <<Call("dictionary_set_fields", cn, name, NoneV, PyNone, r.rsp)>>
         IN IF r.rsp.type = "Success" THEN Returns(IntV(Len(d3)), r.st, calls)
            ELSE Raises(convert_momento_to_redis_errors(r.rsp), <<>>, r.st, calls)

\* x[i] of a str or bytes x: a str of one character, or an int.
ItemAt(x, i) == IF x.t = "str" THEN StrV(<<x.v[i]>>) ELSE IntV(x.v[i])

\* hset of the legacy wrapper: nothing is converted, nothing is refused, and
\* the items go through dict(items), which takes each item as a pair: a str
\* that is not two characters long is a ValueError.
legacy_hset(ds, cn, name, key, value, mapping, items, f) ==
    IF ~items.none /\ \E i \in 1..Len(items.items) : ~IsPayload(items.items[i])
    THEN Raises("TypeError", <<>>, ds, <<>>)
    ELSE IF ~items.none /\ \E i \in 1..Len(items.items) : Len(items.items[i].v) # 2
    THEN Raises("ValueError", <<>>, ds, <<>>)
    ELSE LET d1 == IF key.t # "none" THEN DictSet(<<>>, key, value) ELSE <<>>
             d2 == IF mapping.none THEN d1 ELSE DictUpdate(d1, mapping.items)
             d3 == IF items.none THEN d2
                   ELSE DictUpdate(d2, [i \in 1..Len(items.items) |->
                                           <<ItemAt(items.items[i], 1), ItemAt(items.items[i], 2)>>])
             r == Remote_dictionary_set_fields(ds, cn, name, d3, f)
             calls == <<Call("dictionary_set_fields", cn, name, NoneV, PyNone, r.rsp)>>
         IN IF r.rsp.type = "Success" THEN Returns(IntV(Len(d3)), r.st, calls)
            ELSE Raises(convert_momento_to_redis_errors(r.rsp), <<>>, r.st, calls)

\* A dict of the remote's fields: key, value, key, value, ... by field.
DictV(t, d) ==
    LET fs == InOrder(DOMAIN d)
    IN Val("dict", Items([i \in 1..(2 * Len(fs)) |->
                             IF i % 2 = 1 THEN Decoded(t, fs[(i + 1) \div 2])
                             ELSE Decoded(t, d[fs[i \div 2]])]))

hgetall_as(t, ds, cn, name, f) ==
    LET rsp == Remote_dictionary_fetch(ds, cn, name, f)
        calls == <<Call("dictionary_fetch", cn, name, NoneV, PyNone, rsp)>>
    IN IF rsp.type = "Hit"
       THEN IF t = "str" /\ \E x \in DOMAIN rsp.value : ~Utf8Valid(x) \/ ~Utf8Valid(rsp.value[x])
            THEN Raises("UnicodeDecodeError", <<>>, ds, calls)
            ELSE Returns(DictV(t, rsp.value), ds, calls)
       ELSE IF rsp.type = "Miss" THEN Returns(DictV(t, <<>>), ds, calls)
       ELSE Raises(convert_momento_to_redis_errors(rsp), <<>>, ds, calls)

\* hgetall returns value_dictionary_bytes_bytes in the wrapper and
\* value_dictionary_string_string in the legacy wrapper.
wrapper_hgetall(ds, cn, name, f) == hgetall_as("bytes", ds, cn, name, f)
legacy_hgetall(ds, cn, name, f) == hgetall_as("str", ds, cn, name, f)

\* hget returns value_bytes in the wrapper and value_string in the legacy
\* wrapper, None for a Miss.
hget_as(t, ds, cn, name, key, f) ==
    LET rsp == Remote_dictionary_get_field(ds, cn, name, key, f)
        calls == <<Call("dictionary_get_field", cn, name, NoneV, PyNone, rsp)>>
    IN IF rsp.type = "Hit"
       THEN IF t = "str" /\ ~Utf8Valid(rsp.value)
            THEN Raises("UnicodeDecodeError", <<>>, ds, calls)
            ELSE Returns(Decoded(t, rsp.value), ds, calls)
       ELSE IF rsp.type = "Miss" THEN Returns(NoneV, ds, calls)
       ELSE IF rsp.type = "Error"
       THEN Raises(convert_momento_to_redis_errors(rsp), <<>>, ds, calls)
       ELSE Returns(NoneV, ds, calls)

\* hkeys fetches the whole dictionary and lists its keys, [] for a Miss.
hkeys_as(t, ds, cn, name, f) ==
    LET rsp == Remote_dictionary_fetch(ds, cn, name, f)
        calls == <<Call("dictionary_fetch", cn, name, NoneV, PyNone, rsp)>>
    IN IF rsp.type = "Hit"
       THEN IF t = "str" /\ \E x \in DOMAIN rsp.value : ~Utf8Valid(x) \/ ~Utf8Valid(rsp.value[x])
            THEN Raises("UnicodeDecodeError", <<>>, ds, calls)
            ELSE Returns(ElementsV(t, InOrder(DOMAIN rsp.value)), ds, calls)
       ELSE IF rsp.type = "Miss" THEN Returns(ListV(<<>>), ds, calls)
       ELSE IF rsp.type = "Error"
       THEN Raises(convert_momento_to_redis_errors(rsp), <<>>, ds, calls)
       ELSE Returns(NoneV, ds, calls)

\* value_dictionary_bytes_bytes of a get-fields Hit: a dict of the fields
\* whose response is a Hit.
HitItems(t, responses) ==
    LET hits == SelectSeq(responses, LAMBDA r : r.type = "Hit")
    IN DictUpdate(<<>>, [i \in 1..Len(hits) |->
                            <<Decoded(t, hits[i].field), Decoded(t, hits[i].value)>>])

\* hmget has a branch for Hit only: list(...values()); on a Miss or an
\* Error it falls off the end and returns None.
hmget_as(t, ds, cn, name, keys, f) ==
    LET rsp == Remote_dictionary_get_fields(ds, cn, name, keys, f)
        calls == <<Call("dictionary_get_fields", cn, name, NoneV, PyNone, rsp)>>
    IN IF rsp.type = "Hit"
       THEN LET d == HitItems(t, rsp.value)
            IN Returns(ListV([i \in 1..Len(d) |-> d[i][2]]), ds, calls)
       ELSE Returns(NoneV, ds, calls)

wrapper_hmget(ds, cn, name, keys, f) == hmget_as("bytes", ds, cn, name, keys, f)
legacy_hmget(ds, cn, name, keys, f) == hmget_as("str", ds, cn, name, keys, f)

\* hdel(name, *keys) of the wrapper hands the tuple of keys over.
wrapper_hdel(ds, cn, name, keys, f) ==
    LET r == Remote_dictionary_remove_fields(ds, cn, name, keys, f)
        calls == <<Call("dictionary_remove_fields", cn, name, NoneV, PyNone, r.rsp)>>
    IN IF r.rsp.type = "Success" THEN Returns(IntV(Len(keys)), r.st, calls)
       ELSE Raises(convert_momento_to_redis_errors(r.rsp), <<>>, r.st, calls)

\* The legacy hdel spreads the keys over the parameters of
\* dictionary_remove_fields, which has one for the fields: any number of
\* keys but one is a TypeError, and one key is taken as the iterable of
\* fields, that is, character by character.
legacy_hdel(ds, cn, name, keys, f) ==
    IF Len(keys) # 1 THEN Raises("TypeError", <<>>, ds, <<>>)
    ELSE LET fields == [i \in 1..Len(keys[1].v) |-> ItemAt(keys[1], i)]
             r == Remote_dictionary_remove_fields(ds, cn, name, fields, f)
             calls == <<Call("dictionary_remove_fields", cn, name, NoneV, PyNone, r.rsp)>>
         IN IF r.rsp.type = "Success" THEN Returns(IntV(Len(keys)), r.st, calls)
            ELSE Raises(convert_momento_to_redis_errors(r.rsp), <<>>, r.st, calls)

(* -------------------------------- sets --------------------------------- *)

\* sadd(name, *values) of the wrapper: an int among the values goes as its
\* str; len(values) is returned.
wrapper_sadd(ss, cn, name, values, f) ==
    LET vs == [i \in 1..Len(values) |->
                  IF values[i].t = "int" THEN StrV(PyStr(values[i].v[1])) ELSE values[i]]
        r == Remote_set_add_elements(ss, cn, name, vs, f)
        calls == <<Call("set_add_elements", cn, name, NoneV, PyNone, r.rsp)>>
    IN IF r.rsp.type = "Success" THEN Returns(IntV(Len(vs)), r.st, calls)
       ELSE Raises(convert_momento_to_redis_errors(r.rsp), <<>>, r.st, calls)

\* The legacy sadd hands the values over as they are.
legacy_sadd(ss, cn, name, values, f) ==
    LET r == Remote_set_add_elements(ss, cn, name, values, f)
        calls == <<Call("set_add_elements", cn, name, NoneV, PyNone, r.rsp)>>
    IN IF r.rsp.type = "Success" THEN Returns(IntV(Len(values)), r.st, calls)
       ELSE Raises(convert_momento_to_redis_errors(r.rsp), <<>>, r.st, calls)

\* A set of the remote's elements, by element.
SetV(t, S) ==
    LET es == InOrder(S)
    IN Val("set", Items([i \in 1..Len(es) |-> Decoded(t, es[i])]))

\* smembers has branches for Hit and Error: on a Miss it falls off the end
\* and returns None.
smembers_as(t, ss, cn, name, f) ==
    LET rsp == Remote_set_fetch(ss, cn, name, f)
        calls == <<Call("set_fetch", cn, name, NoneV, PyNone, rsp)>>
    IN IF rsp.type = "Hit"
       THEN IF t = "str" /\ \E x \in rsp.value : ~Utf8Valid(x)
            THEN Raises("UnicodeDecodeError", <<>>, ss, calls)
            ELSE Returns(SetV(t, rsp.value), ss, calls)
       ELSE IF rsp.type = "Error"
       THEN Raises(convert_momento_to_redis_errors(rsp), <<>>, ss, calls)
       ELSE Returns(NoneV, ss, calls)

\* smembers returns value_set_bytes in the wrapper and value_set_string in
\* the legacy wrapper.
wrapper_smembers(ss, cn, name, f) == smembers_as("bytes", ss, cn, name, f)
legacy_smembers(ss, cn, name, f) == smembers_as("str", ss, cn, name, f)

\* srem(name, *values), which returns the count n.
srem_counting(n, ss, cn, name, values, f) ==
    LET r == Remote_set_remove_elements(ss, cn, name, values, f)
        calls == <<Call("set_remove_elements", cn, name, NoneV, PyNone, r.rsp)>>
    IN IF r.rsp.type = "Success" THEN Returns(IntV(n), r.st, calls)
       ELSE Raises(convert_momento_to_redis_errors(r.rsp), <<>>, r.st, calls)

\* The wrapper returns len(values); the legacy wrapper len([values]), the
\* length of a list that holds the one tuple.
wrapper_srem(ss, cn, name, values, f) == srem_counting(Len(values), ss, cn, name, values, f)
legacy_srem(ss, cn, name, values, f) == srem_counting(Len(<<values>>), ss, cn, name, values, f)

(* ----------------------------- sorted sets ----------------------------- *)

\* zadd of the wrapper: an option that is passed at all is refused.
wrapper_zadd(zs, cn, name, mapping, o, f) ==
    LET given(n) == Opt(o, n).k # "unset"
        refuse(text) == Raises("NotImplementedError", <<text, NOT_IMPL_ERR>>, zs, <<>>)
    IN IF given("nx") THEN refuse("SortedSetAddOption NX")
       ELSE IF given("xx") THEN refuse("SortedSetAddOption XX")
       ELSE IF given("ch") THEN refuse("SortedSetAddOption CH")
       ELSE IF given("incr") THEN refuse("SortedSetAddOption INCR")
       ELSE IF given("gt") THEN refuse("SortedSetAddOption GT")
       ELSE IF given("lt") THEN refuse("SortedSetAddOption LT")
       ELSE LET r == Remote_sorted_set_put_elements(zs, cn, name, mapping, f)
                calls == <<Call("sorted_set_put_elements", cn, name, NoneV, PyNone, r.rsp)>>
            IN IF r.rsp.type = "Success" THEN Returns(IntV(Len(mapping)), r.st, calls)
               ELSE Raises(convert_momento_to_redis_errors(r.rsp), <<>>, r.st, calls)

\* zadd of the legacy wrapper tests the options, which default to ...: nx,
\* xx and ch by their truth, incr, gt and lt against None.
legacy_zadd(zs, cn, name, mapping, o, f) ==
    LET a(n) == Default(Opt(o, n), Ellipsis)
        refuse(text) == Raises("NotImplementedError", <<text, LEGACY_NOT_IMPL_ERR>>, zs, <<>>)
    IN IF Truthy(a("nx")) THEN refuse("SortedSetAddOption NX")
       ELSE IF Truthy(a("xx")) THEN refuse("SortedSetAddOption XX")
       ELSE IF Truthy(a("ch")) THEN refuse("SortedSetAddOption CH")
       ELSE IF a("incr").k # "none" THEN refuse("SortedSetAddOption incr")
       ELSE IF a("gt").k # "none" THEN refuse("SortedSetAddOption INCR")
       ELSE IF a("lt").k # "none" THEN refuse("SortedSetAddOption LT")
       ELSE LET r == Remote_sorted_set_put_elements(zs, cn, name, mapping, f)
                calls == <<Call("sorted_set_put_elements", cn, name, NoneV, PyNone, r.rsp)>>
            IN IF r.rsp.type = "Success" THEN Returns(IntV(Len(mapping)), r.st, calls)
               ELSE Raises(convert_momento_to_redis_errors(r.rsp), <<>>, r.st, calls)

\* zrem(name, *values): the same in both wrappers.
wrapper_zrem(zs, cn, name, values, f) ==
    LET r == Remote_sorted_set_remove_elements(zs, cn, name, values, f)
        calls == <<Call("sorted_set_remove_elements", cn, name, NoneV, PyNone, r.rsp)>>
    IN IF r.rsp.type = "Success" THEN Returns(IntV(Len(values)), r.st, calls)
       ELSE Raises(convert_momento_to_redis_errors(r.rsp), <<>>, r.st, calls)

RECURSIVE Scored(_, _, _)
\* A list of the elements xs: the elements alone, or each followed by its
\* score when withscores.
Scored(t, xs, withscores) ==
    IF xs = <<>> THEN <<>>
    ELSE Items(<<Decoded(t, Head(xs)[1])>>) \o (IF withscores THEN <<Head(xs)[2]>> ELSE <<>>)
         \o Scored(t, Tail(xs), withscores)
RangeV(t, xs, withscores) ==
    Val(IF withscores /\ xs # <<>> THEN "pairs" ELSE "list", Scored(t, xs, withscores))

\* zrange of the wrapper: end + 1 is the exclusive end rank; by score the
\* sort order sent is always DESCENDING; the list of a Hit is reversed.
wrapper_zrange(zs, cn, name, start, end, o, listing, f) ==
    LET desc == Default(Opt(o, "desc"), PyFalse)
        withscores == Default(Opt(o, "withscores"), PyFalse)
        byscore == Default(Opt(o, "byscore"), PyFalse)
        offset == Default(Opt(o, "offset"), PyNone)
        num == Default(Opt(o, "num"), PyNone)
        sort_order == IF Truthy(desc) THEN "DESCENDING" ELSE "ASCENDING"
        rsp == IF Truthy(byscore)
               THEN Remote_sorted_set_fetch_by_score(zs, cn, name, start, end + 1, "DESCENDING",
                                                     offset, num, listing, f)
               ELSE Remote_sorted_set_fetch_by_rank(zs, cn, name, start, end + 1, sort_order,
                                                    listing, f)
        calls == <<Call(IF Truthy(byscore) THEN "sorted_set_fetch_by_score"
                        ELSE "sorted_set_fetch_by_rank", cn, name, NoneV, PyNone, rsp)>>
    IN IF rsp.type = "Hit"
       THEN Returns(RangeV("bytes", Reverse(rsp.value), Truthy(withscores)), zs, calls)
       ELSE IF rsp.type = "Miss" THEN Returns(RangeV("bytes", <<>>, FALSE), zs, calls)
       ELSE Raises(convert_momento_to_redis_errors(rsp), <<>>, zs, calls)

\* zrange of the legacy wrapper: desc, withscores and score_cast_func have
\* no default, so a call without them is a TypeError; byscore, offset and
\* num default to ..., so the fetch is by score unless byscore is passed
\* falsy; end is sent as it is; value_list_string is returned as listed.
legacy_zrange(zs, cn, name, start, end, o, listing, f) ==
    IF \E n \in {"desc", "withscores", "score_cast_func"} : Opt(o, n).k = "unset"
    THEN Raises("TypeError", <<>>, zs, <<>>)
    ELSE LET byscore == Default(Opt(o, "byscore"), Ellipsis)
             num == Default(Opt(o, "num"), Ellipsis)
             sort_order == IF Truthy(Opt(o, "desc")) THEN "DESCENDING" ELSE "ASCENDING"
             rsp == IF Truthy(byscore)
                    THEN Remote_sorted_set_fetch_by_score(zs, cn, name, start, end, "DESCENDING",
                                                          PyInt(start), num, listing, f)
                    ELSE Remote_sorted_set_fetch_by_rank(zs, cn, name, start, end, sort_order,
                                                         listing, f)
             calls == <<Call(IF Truthy(byscore) THEN "sorted_set_fetch_by_score"
                             ELSE "sorted_set_fetch_by_rank", cn, name, NoneV, PyNone, rsp)>>
         IN IF rsp.type = "Hit"
            THEN Returns(RangeV("str", rsp.value, Truthy(Opt(o, "withscores"))), zs, calls)
            ELSE IF rsp.type = "Miss" THEN Returns(RangeV("str", <<>>, FALSE), zs, calls)
            ELSE Raises(convert_momento_to_redis_errors(rsp), <<>>, zs, calls)

\* What a range command returns for the fetch response rsp: the list of a
\* Hit with its members handed out as t, [] for a Miss.
range_result(t, rsp, withscores, zs, calls) ==
    IF rsp.type = "Hit" THEN Returns(RangeV(t, rsp.value, withscores), zs, calls)
    ELSE IF rsp.type = "Miss" THEN Returns(RangeV(t, <<>>, FALSE), zs, calls)
    ELSE IF rsp.type = "Error" THEN Raises(convert_momento_to_redis_errors(rsp), <<>>, zs, calls)
    ELSE Returns(NoneV, zs, calls)

\* zrevrange of the wrapper: end is sent as it is, the sort order is
\* DESCENDING, and the list is returned as listed.
wrapper_zrevrange(zs, cn, name, start, end, o, listing, f) ==
    LET withscores == Default(Opt(o, "withscores"), PyFalse)
        rsp == Remote_sorted_set_fetch_by_rank(zs, cn, name, start, end, "DESCENDING", listing, f)
        calls == <<Call("sorted_set_fetch_by_rank", cn, name, NoneV, PyNone, rsp)>>
    IN range_result("bytes", rsp, Truthy(withscores), zs, calls)

\* The parameters withscores and score_cast_func of the legacy range
\* commands have no default: a call without them is a TypeError.
LacksRequired(o) == \E n \in {"withscores", "score_cast_func"} : Opt(o, n).k = "unset"

\* zrevrange of the legacy wrapper asks for ASCENDING.
legacy_zrevrange(zs, cn, name, start, end, o, listing, f) ==
    IF LacksRequired(o) THEN Raises("TypeError", <<>>, zs, <<>>)
    ELSE LET rsp == Remote_sorted_set_fetch_by_rank(zs, cn, name, start, end, "ASCENDING",
                                                    listing, f)
             calls == <<Call("sorted_set_fetch_by_rank", cn, name, NoneV, PyNone, rsp)>>
         IN range_result("str", rsp, Truthy(Opt(o, "withscores")), zs, calls)

\* zrangebyscore of the wrapper: the bounds as they are, DESCENDING; with
\* scores it returns value_list_string, without them the bytes members.
wrapper_zrangebyscore(zs, cn, name, min, max, o, listing, f) ==
    LET withscores == Default(Opt(o, "withscores"), PyFalse)
        rsp == Remote_sorted_set_fetch_by_score(zs, cn, name, min, max, "DESCENDING",
                                                Default(Opt(o, "start"), PyNone),
                                                Default(Opt(o, "num"), PyNone), listing, f)
        calls == <<Call("sorted_set_fetch_by_score", cn, name, NoneV, PyNone, rsp)>>
    IN range_result(IF Truthy(withscores) THEN "str" ELSE "bytes", rsp, Truthy(withscores),
                    zs, calls)

\* by score in the legacy wrapper: start and num default to ...
legacy_byscore(sort_order, zs, cn, name, min, max, o, listing, f) ==
    IF LacksRequired(o) THEN Raises("TypeError", <<>>, zs, <<>>)
    ELSE LET rsp == Remote_sorted_set_fetch_by_score(zs, cn, name, min, max, sort_order,
                                                     Default(Opt(o, "start"), Ellipsis),
                                                     Default(Opt(o, "num"), Ellipsis), listing, f)
             calls == <<Call("sorted_set_fetch_by_score", cn, name, NoneV, PyNone, rsp)>>
         IN range_result("str", rsp, Truthy(Opt(o, "withscores")), zs, calls)

legacy_zrangebyscore(zs, cn, name, min, max, o, listing, f) ==
    legacy_byscore("DESCENDING", zs, cn, name, min, max, o, listing, f)

\* zrevrangebyscore(name, max, min) of the wrapper, whose first two
\* parameters are named min and max: min_score=max, max_score=min, that is,
\* the second argument is the lower bound; DESCENDING.
wrapper_zrevrangebyscore(zs, cn, name, first, second, o, listing, f) ==
    LET withscores == Default(Opt(o, "withscores"), PyFalse)
        rsp == Remote_sorted_set_fetch_by_score(zs, cn, name, second, first, "DESCENDING",
                                                Default(Opt(o, "start"), PyNone),
                                                Default(Opt(o, "num"), PyNone), listing, f)
        calls == <<Call("sorted_set_fetch_by_score", cn, name, NoneV, PyNone, rsp)>>
    IN range_result("bytes", rsp, Truthy(withscores), zs, calls)

\* zrevrangebyscore(name, max, min) of the legacy wrapper: min_score=min,
\* max_score=max, ASCENDING.
legacy_zrevrangebyscore(zs, cn, name, max, min, o, listing, f) ==
    legacy_byscore("ASCENDING", zs, cn, name, min, max, o, listing, f)

(* --------------------------- the state machine ------------------------- *)

Variants == {"client", "wrapper", "legacy"}
CacheNames == {"test-cache", "default"}
Keys == {"k1", "k2"}

\* "é" and b"b": a text whose UTF-8 encoding differs from its code points,
\* and a binary.
TextValues == {StrV(<<233>>), BytesV(<<98>>)}
CounterRange == (0 - MaxCounter)..MaxCounter

\* No command has run yet.
NoCall == [cmd |-> "none"]
IsCall(c) == c.cmd \notin {"none", "tick"}

\* The adapter is constructed over an existing, empty cache.
Init ==
    /\ variant \in Variants
    /\ cache_name = "test-cache"
    /\ store = [cn \in CacheNames |-> [k \in Keys |-> Absent]]
    /\ lists = [cn \in CacheNames |-> [k \in Keys |-> <<>>]]
    /\ dictionaries = [cn \in CacheNames |-> [k \in Keys |-> <<>>]]
    /\ sets = [cn \in CacheNames |-> [k \in Keys |-> {}]]
    /\ sorted_sets = [cn \in CacheNames |-> [k \in Keys |-> <<>>]]
    /\ now = 0
    /\ last = NoCall
    /\ prev = NoCall
    /\ callers = <<>>

\* What `prev` remembers after a step that makes l the last command: the
\* command before it ("keep"), l itself ("mark"), what it remembered
\* already ("hold") or nothing ("drop").
Remembered(keep, l) ==
    CASE keep = "keep" -> last
      [] keep = "mark" -> l
      [] keep = "hold" -> prev
      [] OTHER -> NoCall

\* A command has run at time `now`: its arguments and its outcome become
\* `last`, and the remote keeps r.st.
Record(args, r, keep) ==
    /\ last' = args @@ [at |-> now, pre |-> store[cache_name], ret |-> r.ret, out |-> r.out,
                        exc |-> r.exc, msg |-> r.msg, calls |-> r.calls]
    /\ prev' = Remembered(keep, last')
    /\ store' = r.st
    /\ UNCHANGED <<variant, cache_name, lists, dictionaries, sets, sorted_sets, now, callers>>

\* A list command has run: the remote keeps the lists r.st.
RecordList(args, r) ==
    /\ last' = args @@ [at |-> now, pre |-> store[cache_name], lpre |-> lists[cache_name],
                        ret |-> r.ret, out |-> r.out, exc |-> r.exc, msg |-> r.msg,
                        calls |-> r.calls]
    /\ prev' = NoCall
    /\ lists' = r.st
    /\ UNCHANGED <<variant, cache_name, store, dictionaries, sets, sorted_sets, now, callers>>

get(name, f, keep) ==
    Record([cmd |-> "get", key |-> name],
           CASE variant = "client" -> client_get(store, cache_name, name, f)
             [] variant = "wrapper" -> wrapper_get(store, cache_name, name, f)
             [] OTHER -> legacy_get(store, cache_name, name, f),
           keep)

set(name, value, o, f, keep) ==
    Record([cmd |-> "set", key |-> name, value |-> value, opts |-> o],
           CASE variant = "client" -> client_set(store, now, cache_name, name, value, o, f)
             [] variant = "wrapper" -> wrapper_set(store, now, cache_name, name, value, o, f)
             [] OTHER -> legacy_set(store, now, cache_name, name, value, o, f),
           keep)

setnx(name, value, f, keep) ==
    Record([cmd |-> "setnx", key |-> name, value |-> value],
           CASE variant = "client" -> client_setnx(store, now, cache_name, name, value, f)
             [] OTHER -> wrapper_setnx(store, now, cache_name, name, value, f),
           keep)

setex(name, time, value, f, keep) ==
    Record([cmd |-> "setex", key |-> name, time |-> time, value |-> value],
           CASE variant = "client" -> client_setex(store, now, cache_name, name, time, value, f)
             [] variant = "wrapper" -> wrapper_setex(store, now, cache_name, name, time, value, f)
             [] OTHER -> legacy_setex(store, now, cache_name, name, time, value, f),
           keep)

delete(names, fs, keep) ==
    Record([cmd |-> "delete", names |-> names],
           CASE variant = "client" -> client_delete(store, cache_name, names, fs)
             [] OTHER -> wrapper_delete(store, cache_name, names),
           keep)

decr(name, amount, f, keep) ==
    Record([cmd |-> "decr", key |-> name, amount |-> amount],
           CASE variant = "client" -> client_decr(store, cache_name, name, amount, f)
             [] variant = "wrapper" -> wrapper_decr(store, cache_name, name, amount, f)
             [] OTHER -> legacy_decr(store, cache_name, name, amount, f),
           keep)

decrby(name, amount, f, keep) ==
    Record([cmd |-> "decrby", key |-> name, amount |-> amount],
           CASE variant = "client" -> client_decrby(store, cache_name, name, amount, f)
             [] variant = "wrapper" -> wrapper_decrby(store, cache_name, name, amount, f)
             [] OTHER -> legacy_decrby(store, cache_name, name, amount, f),
           keep)

incr(name, amount, f, keep) ==
    Record([cmd |-> "incr", key |-> name, amount |-> amount],
           CASE variant = "client" -> client_incr(store, cache_name, name, amount, f)
             [] variant = "wrapper" -> wrapper_incr(store, cache_name, name, amount, f)
             [] OTHER -> legacy_incr(store, cache_name, name, amount, f),
           keep)

incrby(name, amount, f, keep) ==
    Record([cmd |-> "incrby", key |-> name, amount |-> amount],
           CASE variant = "client" -> client_incrby(store, cache_name, name, amount, f)
             [] variant = "wrapper" -> wrapper_incrby(store, cache_name, name, amount, f)
             [] OTHER -> legacy_incrby(store, cache_name, name, amount, f),
           keep)

\* rpush, lpop and rpop are stubs in the client.
rpush(name, values, f) ==
    RecordList([cmd |-> "rpush", key |-> name, values |-> values],
               CASE variant = "client" -> not_implemented(lists, "rpush")
                 [] variant = "wrapper" -> wrapper_rpush(lists, cache_name, name, values, f)
                 [] OTHER -> legacy_rpush(lists, cache_name, name, values, f))

lpush(name, values, f) ==
    RecordList([cmd |-> "lpush", key |-> name, values |-> values],
               CASE variant = "client" -> not_implemented(lists, "lpush")
                 [] variant = "wrapper" -> wrapper_lpush(lists, cache_name, name, values, f)
                 [] OTHER -> legacy_lpush(lists, cache_name, name, values, f))

llen(name, f) ==
    RecordList([cmd |-> "llen", key |-> name],
               CASE variant = "client" -> not_implemented(lists, "llen")
                 [] OTHER -> wrapper_llen(lists, cache_name, name, f))

lrange(name, start, end, f) ==
    RecordList([cmd |-> "lrange", key |-> name, start |-> start, end |-> end],
               CASE variant = "client" -> not_implemented(lists, "lrange")
                 [] variant = "wrapper" -> wrapper_lrange(lists, cache_name, name, start, end, f)
                 [] OTHER -> legacy_lrange(lists, cache_name, name, start, end, f))

lpop(name, count, f) ==
    RecordList([cmd |-> "lpop", key |-> name, count |-> count],
               CASE variant = "client" -> not_implemented(lists, "lpop")
                 [] variant = "wrapper" -> wrapper_lpop(lists, cache_name, name, count, f)
                 [] OTHER -> legacy_lpop(lists, cache_name, name, count, f))

rpop(name, count, f) ==
    RecordList([cmd |-> "rpop", key |-> name, count |-> count],
               CASE variant = "client" -> not_implemented(lists, "rpop")
                 [] variant = "wrapper" -> wrapper_rpop(lists, cache_name, name, count, f)
                 [] OTHER -> legacy_rpop(lists, cache_name, name, count, f))

\* The hash, set and sorted-set commands are stubs of the client.
RecordDict(args, r, keep) ==
    /\ last' = args @@ [at |-> now, dpre |-> dictionaries[cache_name], ret |-> r.ret,
                        out |-> r.out, exc |-> r.exc, msg |-> r.msg, calls |-> r.calls]
    /\ prev' = Remembered(keep, last')
    /\ dictionaries' = r.st
    /\ UNCHANGED <<variant, cache_name, store, lists, sets, sorted_sets, now, callers>>

hset(name, key, value, mapping, items, f, keep) ==
    RecordDict([cmd |-> "hset", name |-> name, key |-> key, value |-> value,
                mapping |-> mapping, items |-> items],
               CASE variant = "client" -> not_implemented(dictionaries, "hset")
                 [] variant = "wrapper" ->
                        wrapper_hset(dictionaries, cache_name, name, key, value, mapping, items, f)
                 [] OTHER ->
                        legacy_hset(dictionaries, cache_name, name, key, value, mapping, items, f),
               keep)

hgetall(name, f, keep) ==
    RecordDict([cmd |-> "hgetall", name |-> name],
               CASE variant = "client" -> not_implemented(dictionaries, "hgetall")
                 [] variant = "wrapper" -> wrapper_hgetall(dictionaries, cache_name, name, f)
                 [] OTHER -> legacy_hgetall(dictionaries, cache_name, name, f),
               keep)

hget(name, key, f, keep) ==
    RecordDict([cmd |-> "hget", name |-> name, key |-> key],
               CASE variant = "client" -> not_implemented(dictionaries, "hget")
                 [] variant = "wrapper" -> hget_as("bytes", dictionaries, cache_name, name, key, f)
                 [] OTHER -> hget_as("str", dictionaries, cache_name, name, key, f),
               keep)

hkeys(name, f, keep) ==
    RecordDict([cmd |-> "hkeys", name |-> name],
               CASE variant = "client" -> not_implemented(dictionaries, "hkeys")
                 [] variant = "wrapper" -> hkeys_as("bytes", dictionaries, cache_name, name, f)
                 [] OTHER -> hkeys_as("str", dictionaries, cache_name, name, f),
               keep)

hmget(name, keys, f, keep) ==
    RecordDict([cmd |-> "hmget", name |-> name, keys |-> keys],
               CASE variant = "client" -> not_implemented(dictionaries, "hmget")
                 [] variant = "wrapper" -> wrapper_hmget(dictionaries, cache_name, name, keys, f)
                 [] OTHER -> legacy_hmget(dictionaries, cache_name, name, keys, f),
               keep)

hdel(name, keys, f, keep) ==
    RecordDict([cmd |-> "hdel", name |-> name, keys |-> keys],
               CASE variant = "client" -> not_implemented(dictionaries, "hdel")
                 [] variant = "wrapper" -> wrapper_hdel(dictionaries, cache_name, name, keys, f)
                 [] OTHER -> legacy_hdel(dictionaries, cache_name, name, keys, f),
               keep)

RecordSet(args, r, keep) ==
    /\ last' = args @@ [at |-> now, spre |-> sets[cache_name], ret |-> r.ret,
                        out |-> r.out, exc |-> r.exc, msg |-> r.msg, calls |-> r.calls]
    /\ prev' = Remembered(keep, last')
    /\ sets' = r.st
    /\ UNCHANGED <<variant, cache_name, store, lists, dictionaries, sorted_sets, now, callers>>

sadd(name, values, f, keep) ==
    RecordSet([cmd |-> "sadd", name |-> name, values |-> values],
              CASE variant = "client" -> not_implemented(sets, "sadd")
                [] variant = "wrapper" -> wrapper_sadd(sets, cache_name, name, values, f)
                [] OTHER -> legacy_sadd(sets, cache_name, name, values, f),
              keep)

srem(name, values, f, keep) ==
    RecordSet([cmd |-> "srem", name |-> name, values |-> values],
              CASE variant = "client" -> not_implemented(sets, "srem")
                [] variant = "wrapper" -> wrapper_srem(sets, cache_name, name, values, f)
                [] OTHER -> legacy_srem(sets, cache_name, name, values, f),
              keep)

smembers(name, f, keep) ==
    RecordSet([cmd |-> "smembers", name |-> name],
              CASE variant = "client" -> not_implemented(sets, "smembers")
                [] variant = "wrapper" -> wrapper_smembers(sets, cache_name, name, f)
                [] OTHER -> legacy_smembers(sets, cache_name, name, f),
              keep)

RecordSortedSet(args, r, keep) ==
    /\ last' = args @@ [at |-> now, zpre |-> sorted_sets[cache_name], ret |-> r.ret,
                        out |-> r.out, exc |-> r.exc, msg |-> r.msg, calls |-> r.calls]
    /\ prev' = Remembered(keep, last')
    /\ sorted_sets' = r.st
    /\ UNCHANGED <<variant, cache_name, store, lists, dictionaries, sets, now, callers>>

zadd(name, mapping, o, f, keep) ==
    RecordSortedSet([cmd |-> "zadd", name |-> name, mapping |-> mapping, opts |-> o],
                    CASE variant = "client" -> not_implemented(sorted_sets, "zadd")
                      [] variant = "wrapper" ->
                             wrapper_zadd(sorted_sets, cache_name, name, mapping, o, f)
                      [] OTHER -> legacy_zadd(sorted_sets, cache_name, name, mapping, o, f),
                    keep)

zrem(name, values, f, keep) ==
    RecordSortedSet([cmd |-> "zrem", name |-> name, values |-> values],
                    CASE variant = "client" -> not_implemented(sorted_sets, "zrem")
                      [] OTHER -> wrapper_zrem(sorted_sets, cache_name, name, values, f),
                    keep)

zrange(name, start, end, o, listing, f, keep) ==
    RecordSortedSet([cmd |-> "zrange", name |-> name, start |-> start, end |-> end, opts |-> o,
                     listing |-> listing],
                    CASE variant = "client" -> not_implemented(sorted_sets, "zrange")
                      [] variant = "wrapper" ->
                             wrapper_zrange(sorted_sets, cache_name, name, start, end, o, listing, f)
                      [] OTHER ->
                             legacy_zrange(sorted_sets, cache_name, name, start, end, o, listing, f),
                    keep)

\* A range command other than zrange, with its two bounds as passed.
zrevrange(name, start, end, o, listing, f, keep) ==
    RecordSortedSet([cmd |-> "zrevrange", name |-> name, start |-> start, end |-> end,
                     opts |-> o, listing |-> listing],
                    CASE variant = "client" -> not_implemented(sorted_sets, "zrevrange")
                      [] variant = "wrapper" ->
                             wrapper_zrevrange(sorted_sets, cache_name, name, start, end, o, listing, f)
                      [] OTHER ->
                             legacy_zrevrange(sorted_sets, cache_name, name, start, end, o, listing, f),
                    keep)

zrangebyscore(name, min, max, o, listing, f, keep) ==
    RecordSortedSet([cmd |-> "zrangebyscore", name |-> name, start |-> min, end |-> max,
                     opts |-> o, listing |-> listing],
                    CASE variant = "client" -> not_implemented(sorted_sets, "zrangebyscore")
                      [] variant = "wrapper" ->
                             wrapper_zrangebyscore(sorted_sets, cache_name, name, min, max, o, listing, f)
                      [] OTHER ->
                             legacy_zrangebyscore(sorted_sets, cache_name, name, min, max, o, listing, f),
                    keep)

zrevrangebyscore(name, max, min, o, listing, f, keep) ==
    RecordSortedSet([cmd |-> "zrevrangebyscore", name |-> name, start |-> max, end |-> min,
                     opts |-> o, listing |-> listing],
                    CASE variant = "client" -> not_implemented(sorted_sets, "zrevrangebyscore")
                      [] variant = "wrapper" ->
                             wrapper_zrevrangebyscore(sorted_sets, cache_name, name, max, min, o, listing, f)
                      [] OTHER ->
                             legacy_zrevrangebyscore(sorted_sets, cache_name, name, max, min, o, listing, f),
                    keep)

\* mget and mset are stubs of the client.
mget(keys, keep) ==
    Record([cmd |-> "mget", keys |-> keys],
           CASE variant = "client" -> not_implemented(store, "mget")
             [] OTHER -> wrapper_mget(store, cache_name, keys),
           keep)

mset(mapping, keep) ==
    Record([cmd |-> "mset", mapping |-> mapping],
           CASE variant = "client" -> not_implemented(store, "mset")
             [] OTHER -> wrapper_mset(store, cache_name, mapping),
           keep)

\* A command the client declares and does not implement.
client_stub(p) ==
    /\ variant = "client"
    /\ Record([cmd |-> p[1]], not_implemented(store, p[2]), "drop")

\* A command the wrapper declares and does not implement.
wrapper_stub_call(p) ==
    /\ variant = "wrapper"
    /\ Record([cmd |-> p[1]], wrapper_stub(store, p[2]), "drop")

\* The remote's items expire as time passes.
Elapse(keep) ==
    /\ now < MaxTime
    /\ now' = now + 1
    /\ store' = [cn \in CacheNames |-> [k \in Keys |->
                    IF store[cn][k].live /\ store[cn][k].exp <= now + 1 THEN Absent
                    ELSE store[cn][k]]]
    /\ last' = [cmd |-> "tick"]
    /\ prev' = Remembered(keep, last')
    /\ UNCHANGED <<variant, cache_name, lists, dictionaries, sets, sorted_sets, callers>>

Tick == Elapse("drop")

\* The options the string scenarios pass to set.
PlainOpts == {NoOpts, [nx |-> PyTrue], [ex |-> TimeDelta(1)]}
KeyLists == {<<k>> : k \in Keys} \cup {<<"k1", "k2">>}

Next ==
    \/ \E k \in Keys, f \in Faults : get(k, f, "drop")
    \/ \E k \in Keys, v \in TextValues, o \in PlainOpts, f \in WriteFaults : set(k, v, o, f, "drop")
    \/ \E k \in Keys, v \in TextValues, f \in WriteFaults : setnx(k, v, f, "drop")
    \/ \E k \in Keys, v \in TextValues, f \in WriteFaults : setex(k, TimeDelta(1), v, f, "drop")
    \/ \E ks \in KeyLists, fs \in [1..2 -> WriteFaults] : delete(ks, fs, "drop")
    \/ Tick

Spec == Init /\ [][Next]_vars

(* ------------------------- the counter scenarios ----------------------- *)

\* 2, "2" and "-1" seed a counter; the amount is omitted, 2 or -1.
CounterSeeds == {IntV(2), StrV(PyStr(2)), StrV(PyStr(-1))}
Amounts == {Unset, PyInt(2), PyInt(-1)}

\* The counters of the adapter's cache stay within CounterRange.
CountersInRange ==
    \A k \in Keys :
        (store[cache_name][k].live /\ IsIntBytes(store[cache_name][k].val))
            => IntOfBytes(store[cache_name][k].val) \in CounterRange

NextCounter ==
    \/ \E v \in CounterSeeds, f \in WriteFaults : set("k1", v, NoOpts, f, "keep")
    \/ \E a \in Amounts, f \in WriteFaults : decr("k1", a, f, "keep") /\ CountersInRange'
    \/ \E a \in Amounts, f \in WriteFaults : decrby("k1", a, f, "keep") /\ CountersInRange'
    \/ \E a \in Amounts, f \in WriteFaults : incr("k1", a, f, "keep") /\ CountersInRange'
    \/ \E a \in Amounts, f \in WriteFaults : incrby("k1", a, f, "keep") /\ CountersInRange'
    \/ \E fs \in [1..1 -> WriteFaults] : delete(<<"k1">>, fs, "keep")

SpecCounter == Init /\ [][NextCounter]_vars

(* ------------------------ the options of set --------------------------- *)

\* Each flag is omitted, False or True; at most one expiry option is given.
FlagValues == {Unset, PyFalse, PyTrue}
ExpiryOpts == {NoOpts, [ex |-> PyInt(1)], [px |-> PyInt(1500)], [exat |-> PyInt(2)],
               [pxat |-> PyInt(2)]}
Given(n, a) == IF a = Unset THEN NoOpts ELSE [m \in {n} |-> a]
\* The calls of set that ask for xx, keepttl or get.
UnsupportedOpts ==
    {e @@ Given("nx", nx) @@ Given("xx", xx) @@ Given("keepttl", keepttl) @@ Given("get", gt) :
        e \in ExpiryOpts, nx \in FlagValues,
        <<xx, keepttl, gt>> \in {t \in FlagValues \X FlagValues \X FlagValues :
                                    PyTrue \in {t[1], t[2], t[3]}}}

\* The pops are called without a count, with None or with a count of 1, 2.
Counts == {Unset, PyNone, PyInt(1), PyInt(2)}
\* A list of the scenario holds at most MaxList values.
ListsInRange == \A k \in Keys : Len(lists[cache_name][k]) <= MaxList

NextSetOpts ==
    \/ \E v \in TextValues : set("k1", v, NoOpts, "ok", "drop")
    \/ \E o \in UnsupportedOpts : set("k1", StrV(<<233>>), o, "ok", "drop")
    \/ \E v \in TextValues, f \in WriteFaults : rpush("k1", <<v>>, f) /\ ListsInRange'
    \/ \E c \in Counts, f \in WriteFaults : lpop("k1", c, f)
    \/ \E c \in Counts, f \in WriteFaults : rpop("k1", c, f)

SpecSetOpts == Init /\ [][NextSetOpts]_vars

(* --------------------------- relative expiry --------------------------- *)

\* A key is written with an expiry of S seconds or P milliseconds, then read
\* as time passes.  `prev` remembers the last write.
ExpirySeconds == 1..MaxTime
ExpiryMillis == {1000 * S : S \in ExpirySeconds} \cup {1000 * S + 500 : S \in ExpirySeconds}
\* The flags left out, or passed as False with ex passed as None.
FlagsLeftOut == {NoOpts, [ex |-> PyNone, nx |-> PyFalse, xx |-> PyFalse, get |-> PyFalse]}
RelativeOpts ==
    {[ex |-> PyInt(S)] @@ e : S \in ExpirySeconds, e \in FlagsLeftOut}
        \cup {[px |-> PyInt(P)] @@ e : P \in ExpiryMillis, e \in FlagsLeftOut}

NextExpiry ==
    \/ \E v \in TextValues, o \in RelativeOpts, f \in WriteFaults : set("k1", v, o, f, "mark")
    \/ \E v \in TextValues, S \in ExpirySeconds, f \in WriteFaults :
            setex("k1", PyInt(S), v, f, "mark")
    \/ \E f \in WriteFaults : get("k1", f, "hold")
    \/ Elapse("hold")

SpecExpiry == Init /\ [][NextExpiry]_vars

(* -------------------------- the batch scenarios ------------------------ *)

\* The key lists and mappings the batch commands are given; a mapping is
\* the sequence of its items in insertion order.
BatchKeys == {<<>>, <<"k1">>, <<"k2">>, <<"k1", "k2">>, <<"k2", "k1">>}
Mappings ==
    {<<>>} \cup {<<<<k, v>>>> : k \in Keys, v \in TextValues}
           \cup {<<<<"k1", v>>, <<"k2", w>>>> : v \in TextValues, w \in TextValues}

NextBatch ==
    \/ \E k \in Keys, v \in TextValues, f \in WriteFaults : setex(k, TimeDelta(1), v, f, "drop")
    \/ \E k \in Keys, v \in TextValues, f \in WriteFaults : setnx(k, v, f, "drop")
    \/ \E ks \in BatchKeys : mget(ks, "drop")
    \/ \E mp \in Mappings : mset(mp, "drop")
    \/ \E ks \in BatchKeys, fs \in [1..2 -> WriteFaults] : delete(ks, fs, "drop")
    \/ Tick

SpecBatch == Init /\ [][NextBatch]_vars

(* --------------------------- the hash scenarios ------------------------ *)

\* The fields "a" and "c" and the values "b", "d" and "e".
FieldA == StrV(<<97>>)
FieldC == StrV(<<99>>)
ValueB == StrV(<<98>>)
ValueD == StrV(<<100>>)
ValueE == StrV(<<101>>)

\* What hset is given: the pair or none, the mapping and the items or None.
HsetPairs == {<<NoneV, NoneV>>, <<FieldA, ValueB>>}
HsetMappings == {NoItems, ItemsOf(<<>>), ItemsOf(<<<<FieldA, ValueD>>>>),
                 ItemsOf(<<<<FieldA, ValueD>>, <<FieldC, ValueD>>>>)}
HsetItems == {NoItems, ItemsOf(<<FieldA, ValueE>>), ItemsOf(<<FieldC, ValueE, FieldA, ValueE>>),
              ItemsOf(<<StrV(<<99, 101>>)>>)}
FieldLists == {<<FieldA>>, <<FieldC>>, <<FieldA, FieldC>>, <<FieldC, FieldA>>, <<FieldA, FieldA>>}

NextHash ==
    \/ \E p \in HsetPairs, mp \in HsetMappings, it \in HsetItems, f \in WriteFaults :
           hset("k1", p[1], p[2], mp, it, f, "mark")
    \/ \E f \in WriteFaults : hgetall("k1", f, "hold")
    \/ \E ks \in FieldLists, f \in WriteFaults : hmget("k1", ks, f, "drop")
    \/ \E ks \in FieldLists, f \in WriteFaults : hdel("k1", ks, f, "drop")

SpecHash == Init /\ [][NextHash]_vars

(* --------------------------- the set scenarios ------------------------- *)

\* The members "a", "b" and "c", and the lists of them a call is given.
MemberA == StrV(<<97>>)
MemberB == StrV(<<98>>)
MemberC == StrV(<<99>>)
MemberLists == {<<MemberA>>, <<MemberB>>, <<MemberA, MemberB, MemberC>>, <<MemberB, MemberC>>,
                <<MemberB, MemberB>>}

NextSets ==
    \/ \E vs \in MemberLists, f \in WriteFaults : sadd("k1", vs, f, "mark")
    \/ \E vs \in MemberLists, f \in WriteFaults : srem("k1", vs, f, "mark")
    \/ \E f \in WriteFaults : smembers("k1", f, "hold")

SpecSets == Init /\ [][NextSets]_vars

(* ----------------------- the sorted-set scenarios ---------------------- *)

\* The elements "a" to "d" with the scores 1 to 4, and the ranks asked for.
ScoreOne == <<StrV(<<97>>), 1>>
ScoreTwo == <<StrV(<<98>>), 2>>
ScoreThree == <<StrV(<<99>>), 3>>
ScoreFour == <<StrV(<<100>>), 4>>
ScoreMappings == {<<ScoreOne, ScoreTwo, ScoreThree, ScoreFour>>, <<ScoreThree>>,
                  <<ScoreFour, ScoreTwo>>}
\* zadd is called with no option, or with every option passed as unset.
ZaddOpts == {NoOpts, [nx |-> PyFalse, xx |-> PyFalse, ch |-> PyFalse, incr |-> PyNone,
                      gt |-> PyNone, lt |-> PyNone]}
ElementLists == {<<StrV(<<97>>)>>, <<StrV(<<98>>), StrV(<<100>>)>>}
Ranks == 0..3
\* zrange is called with start and end alone, with desc, with withscores,
\* by score, or with every parameter that has no default in the legacy file.
ZrangeOpts == {NoOpts, [desc |-> PyFalse], [desc |-> PyTrue], [withscores |-> PyTrue],
               [desc |-> PyTrue, withscores |-> PyTrue], [byscore |-> PyTrue],
               [desc |-> PyFalse, withscores |-> PyTrue, score_cast_func |-> PyTrue],
               [desc |-> PyTrue, withscores |-> PyFalse, score_cast_func |-> PyTrue,
                byscore |-> PyFalse]}

NextSortedSets ==
    \/ \E mp \in ScoreMappings, o \in ZaddOpts, f \in WriteFaults : zadd("k1", mp, o, f, "drop")
    \/ \E vs \in ElementLists, f \in WriteFaults : zrem("k1", vs, f, "drop")
    \/ \E s \in Ranks, e \in Ranks, o \in ZrangeOpts, l \in Listings, f \in WriteFaults :
           s <= e /\ zrange("k1", s, e, o, l, f, "drop")

SpecSortedSets == Init /\ [][NextSortedSets]_vars

(* ------------------------- forward and reverse ------------------------- *)

\* The ranks and scores asked for reach beyond the four elements.
Bounds == 0..4
\* The range commands are called with the bounds alone, with withscores, or
\* with the parameters that have no default in the legacy file.
RangeOpts == {NoOpts, [withscores |-> PyTrue],
              [withscores |-> PyTrue, score_cast_func |-> PyTrue],
              [withscores |-> PyFalse, score_cast_func |-> PyTrue, start |-> PyNone,
               num |-> PyNone]}
ByScore(o) == o @@ [byscore |-> PyTrue]

NextRanges ==
    \/ \E mp \in ScoreMappings, o \in ZaddOpts : zadd("k1", mp, o, "ok", "drop")
    \/ \E s \in Bounds, e \in Bounds, o \in RangeOpts, l \in Listings :
           s <= e /\ zrange("k1", s, e, o, l, "ok", "drop")
    \/ \E s \in Bounds, e \in Bounds, o \in RangeOpts, l \in Listings :
           s <= e /\ zrange("k1", s, e, ByScore(o), l, "ok", "drop")
    \/ \E s \in Bounds, e \in Bounds, o \in RangeOpts, l \in Listings, f \in WriteFaults :
           s <= e /\ zrevrange("k1", s, e, o, l, f, "drop")
    \/ \E s \in Bounds, e \in Bounds, o \in RangeOpts, l \in Listings :
           s <= e /\ zrangebyscore("k1", s, e, o, l, "ok", "drop")
    \/ \E s \in Bounds, e \in Bounds, o \in RangeOpts, l \in Listings :
           s <= e /\ zrevrangebyscore("k1", e, s, o, l, "ok", "drop")

SpecRanges == Init /\ [][NextRanges]_vars

(* -------------------------------- lists -------------------------------- *)

\* A list of this scenario holds at most MaxLong values.
MaxLong == 4
LongListsInRange == \A k \in Keys : Len(lists[cache_name][k]) <= MaxLong
\* One to three values, of which no two are equal, are pushed in one call.
Pushed == {<<StrV(<<233>>)>>, <<StrV(<<233>>), BytesV(<<98>>)>>,
           <<BytesV(<<98>>), StrV(<<99>>)>>, <<StrV(<<99>>), StrV(<<233>>), BytesV(<<98>>)>>}
\* The bounds of lrange reach beyond both ends of the longest list.
Indices == (0 - MaxLong - 1)..(MaxLong + 1)

NextLists ==
    \/ \E vs \in Pushed, f \in WriteFaults : rpush("k1", vs, f) /\ LongListsInRange'
    \/ \E vs \in Pushed, f \in WriteFaults : lpush("k1", vs, f) /\ LongListsInRange'
    \/ \E c \in Counts, f \in WriteFaults : lpop("k1", c, f)
    \/ \E c \in Counts, f \in WriteFaults : rpop("k1", c, f)
    \/ \E f \in WriteFaults : llen("k1", f)
    \/ \E s \in Indices, e \in Indices, f \in WriteFaults : lrange("k1", s, e, f)

SpecLists == Init /\ [][NextLists]_vars

(* ------------------------- unrecognised outcomes ----------------------- *)

\* A remote call succeeds, fails, or answers with a response of no class the
\* command tests for.
Outcomes == {"ok", "TimeoutException", Unrecognised}

NextOutcomes ==
    \/ \E k \in Keys, f \in Outcomes : get(k, f, "drop")
    \/ \E v \in TextValues, o \in {NoOpts, [nx |-> PyTrue]}, f \in Outcomes :
           set("k1", v, o, f, "drop")
    \/ \E v \in TextValues, f \in Outcomes : setnx("k1", v, f, "drop")
    \/ \E v \in TextValues, f \in Outcomes : setex("k1", PyInt(1), v, f, "drop")
    \/ \E ks \in KeyLists, fs \in [1..2 -> Outcomes] : delete(ks, fs, "drop")
    \/ \E f \in Outcomes : incr("k2", Unset, f, "drop") /\ CountersInRange'
    \/ \E f \in Outcomes : decrby("k2", PyInt(2), f, "drop") /\ CountersInRange'
    \/ \E v \in TextValues, f \in Outcomes : rpush("k1", <<v>>, f) /\ ListsInRange'
    \/ \E v \in TextValues, f \in Outcomes : lpush("k1", <<v>>, f) /\ ListsInRange'
    \/ \E f \in Outcomes : lpop("k1", PyNone, f)
    \/ \E f \in Outcomes : rpop("k1", PyNone, f)
    \/ \E f \in Outcomes : llen("k1", f)
    \/ \E f \in Outcomes : lrange("k1", 0, 0, f)

SpecOutcomes == Init /\ [][NextOutcomes]_vars

(* ------------------------------ the reads ------------------------------ *)

\* Each kind of collection is created under "k1" or not at all; "k2" is
\* never written.  Every read command is called on both names.
NextReads ==
    \/ hset("k1", FieldA, ValueB, NoItems, NoItems, "ok", "drop")
    \/ sadd("k1", <<MemberA>>, "ok", "drop")
    \/ \E o \in ZaddOpts : zadd("k1", <<ScoreOne>>, o, "ok", "drop")
    \/ rpush("k1", <<ValueB>>, "ok") /\ ListsInRange'
    \/ \E k \in Keys, fd \in {FieldA, FieldC}, f \in WriteFaults : hget(k, fd, f, "drop")
    \/ \E k \in Keys, ks \in FieldLists, f \in WriteFaults : hmget(k, ks, f, "drop")
    \/ \E k \in Keys, f \in WriteFaults : hgetall(k, f, "drop")
    \/ \E k \in Keys, f \in WriteFaults : hkeys(k, f, "drop")
    \/ \E k \in Keys, c \in {Unset, PyNone}, f \in WriteFaults : lpop(k, c, f)
    \/ \E k \in Keys, c \in {Unset, PyNone}, f \in WriteFaults : rpop(k, c, f)
    \/ \E k \in Keys, e \in {0, MaxList}, f \in WriteFaults : lrange(k, 0, e, f)
    \/ \E k \in Keys, f \in WriteFaults : llen(k, f)
    \/ \E k \in Keys, f \in WriteFaults : smembers(k, f, "drop")
    \/ \E k \in Keys, o \in ZrangeOpts, l \in Listings, f \in WriteFaults :
           zrange(k, 0, 1, o, l, f, "drop")
    \/ \E k \in Keys, o \in RangeOpts, l \in Listings, f \in WriteFaults :
           zrevrange(k, 0, 1, o, l, f, "drop")
    \/ \E k \in Keys, o \in RangeOpts, l \in Listings, f \in WriteFaults :
           zrangebyscore(k, 0, 1, o, l, f, "drop")
    \/ \E k \in Keys, o \in RangeOpts, l \in Listings, f \in WriteFaults :
           zrevrangebyscore(k, 1, 0, o, l, f, "drop")

SpecReads == Init /\ [][NextReads]_vars

(* ------------------------ conditional with expiry ---------------------- *)

\* One expiry option: ex in seconds, px in milliseconds (half a second
\* among them), exat in seconds and pxat in milliseconds since the epoch, at
\* or before the first call and after it.
TtlOpts ==
    {[ex |-> PyInt(S)] : S \in ExpirySeconds}
        \cup {[px |-> PyInt(P)] : P \in ExpiryMillis \cup {500}}
        \cup {[exat |-> PyInt(T)] : T \in 0..(MaxTime + 1)}
        \cup {[pxat |-> PyInt(1000 * T)] : T \in 0..(MaxTime + 1)}
NxOpts == {o @@ [nx |-> PyTrue] : o \in TtlOpts}

NextNxExpiry ==
    \/ \E v \in TextValues, o \in NxOpts, f \in WriteFaults : set("k1", v, o, f, "drop")
    \/ \E v \in TextValues, o \in TtlOpts \cup {NoOpts}, f \in WriteFaults :
           set("k1", v, o, f, "drop")
    \/ \E fs \in [1..1 -> WriteFaults] : delete(<<"k1">>, fs, "drop")
    \/ \E f \in WriteFaults : get("k1", f, "drop")
    \/ Tick

SpecNxExpiry == Init /\ [][NextNxExpiry]_vars

(* --------------------------- omitted arguments ------------------------- *)

\* Every command is called with its required arguments alone.
NextDefaults ==
    \/ \E k \in Keys, v \in TextValues, f \in WriteFaults : set(k, v, NoOpts, f, "drop")
    \/ \E k \in Keys, f \in WriteFaults : get(k, f, "drop")
    \/ \E mp \in ScoreMappings, f \in WriteFaults : zadd("k1", mp, NoOpts, f, "drop")
    \/ \E v \in TextValues, f \in WriteFaults : rpush("k1", <<v>>, f) /\ ListsInRange'
    \/ \E f \in WriteFaults : lpop("k1", Unset, f)
    \/ \E f \in WriteFaults : rpop("k1", Unset, f)

SpecDefaults == Init /\ [][NextDefaults]_vars

(* -------------------------- concurrent callers -------------------------- *)

\* Several callers share one adapter.  A caller enters setnx(k, v) or
\* set(k, v, nx=True); the adapter's code up to and including its remote
\* call then runs against the remote, which serves one call at a time, and
\* the caller has its result.  Calls of different callers are served in any
\* order.
Callers == 1..NCallers

InitConc ==
    /\ variant \in Variants
    /\ cache_name = "test-cache"
    /\ store = [cn \in CacheNames |-> [k \in Keys |-> Absent]]
    /\ lists = [cn \in CacheNames |-> [k \in Keys |-> <<>>]]
    /\ dictionaries = [cn \in CacheNames |-> [k \in Keys |-> <<>>]]
    /\ sets = [cn \in CacheNames |-> [k \in Keys |-> {}]]
    /\ sorted_sets = [cn \in CacheNames |-> [k \in Keys |-> <<>>]]
    /\ now = 0
    /\ last = NoCall
    /\ prev = NoCall
    /\ callers = [c \in Callers |-> [pc |-> "idle"]]

Invoke(c, cmd, value) ==
    /\ callers[c].pc = "idle"
    /\ callers' = [callers EXCEPT ![c] = [pc |-> "called", cmd |-> cmd, value |-> value]]
    /\ UNCHANGED <<variant, cache_name, store, lists, dictionaries, sets, sorted_sets, now, last, prev>>

\* The command of caller c as the variant runs it.
RunConditionalWrite(c, f) ==
    IF callers[c].cmd = "setnx"
    THEN CASE variant = "client" -> client_setnx(store, now, cache_name, "k1", callers[c].value, f)
           [] OTHER -> wrapper_setnx(store, now, cache_name, "k1", callers[c].value, f)
    ELSE CASE variant = "client" ->
                client_set(store, now, cache_name, "k1", callers[c].value, [nx |-> PyTrue], f)
           [] variant = "wrapper" ->
                wrapper_set(store, now, cache_name, "k1", callers[c].value, [nx |-> PyTrue], f)
           [] OTHER ->
                legacy_set(store, now, cache_name, "k1", callers[c].value, [nx |-> PyTrue], f)

Complete(c, f) ==
    /\ callers[c].pc = "called"
    /\ LET r == RunConditionalWrite(c, f)
       IN /\ store' = r.st
          /\ callers' = [callers EXCEPT ![c] =
                             [pc |-> "done", cmd |-> callers[c].cmd, value |-> callers[c].value,
                              ret |-> r.ret, out |-> r.out, exc |-> r.exc, calls |-> r.calls]]
    /\ UNCHANGED <<variant, cache_name, lists, dictionaries, sets, sorted_sets, now, last, prev>>

NextConc ==
    \/ \E c \in Callers, cmd \in {"setnx", "set"}, v \in TextValues : Invoke(c, cmd, v)
    \/ \E c \in Callers, f \in WriteFaults : Complete(c, f)

SpecConc == InitConc /\ [][NextConc]_vars

(* ---------------------- the unimplemented commands --------------------- *)

StubNames == {p[1] : p \in client_stubs \cup wrapper_stubs}

NextStubs ==
    \/ \E v \in TextValues : set("k1", v, NoOpts, "ok", "drop")
    \/ \E p \in client_stubs : client_stub(p)
    \/ \E p \in wrapper_stubs : wrapper_stub_call(p)

SpecStubs == Init /\ [][NextStubs]_vars

(* ------------------------------- claims -------------------------------- *)

\* Some remote call of the command c answered Error.
HasError(c) == \E i \in 1..Len(c.calls) : c.calls[i].rtype = "Error"
\* The command c issued exactly one remote call, the operation op.
IsOneCall(c, op) == Len(c.calls) = 1 /\ c.calls[1].op = op
\* The adapter's cache is as it was before the last command.
StoreUntouched == store[cache_name] = last.pre

\* C1: in the client and the wrapper, a set with no option flags followed at
\* once by a get of the same key returns the UTF-8 bytes of the value set,
\* whatever the key held before, and the set is one unconditional remote set.
C1_SetThenGetReturnsValue ==
    [][(/\ variant \in {"client", "wrapper"}
        /\ last.cmd = "set" /\ last.opts = NoOpts /\ last.ret = "return"
        /\ last'.cmd = "get" /\ last'.key = last.key /\ ~HasError(last'))
       => (/\ IsOneCall(last, "set")
           /\ last'.ret = "return"
           /\ last'.out = BytesV(AsBytes(last.value)))]_vars

\* C2: a get of a key that is absent from the cache (never set, deleted or
\* expired) whose remote call does not fail returns None and does not raise.
C2_GetMissReturnsNone ==
    (last.cmd = "get" /\ ~last.pre[last.key].live /\ ~HasError(last))
        => (last.ret = "return" /\ last.out = NoneV /\ last.calls[1].rtype = "Miss")

C2_Witness ==
    /\ last.cmd = "get" /\ variant = "client" /\ now > 0
    /\ ~last.pre[last.key].live /\ last.ret = "return" /\ last.out = NoneV

\* C3: a setnx whose remote call does not fail returns True exactly when the
\* key was absent, and then the key holds the value; on a present key it
\* returns False and the cache is unchanged.
C3_SetnxOnlyWhenAbsent ==
    (last.cmd = "setnx" /\ ~HasError(last))
        => /\ last.ret = "return"
           /\ last.out = (IF last.pre[last.key].live THEN FalseV ELSE TrueV)
           /\ IsOneCall(last, "set_if_not_exists")
           /\ IF last.pre[last.key].live THEN StoreUntouched
              ELSE store[cache_name] =
                     [last.pre EXCEPT ![last.key] = Entry(AsBytes(last.value), Forever)]

C3_Witness ==
    /\ last.cmd = "setnx" /\ last.out = FalseV /\ last.pre[last.key].live
    /\ store[cache_name][last.key].val # AsBytes(last.value)

\* The error of the target interface that each cause is to be mapped to.
MappedError(cause) ==
    CASE cause = "TimeoutException" -> "TimeoutError"
      [] cause = "AuthenticationException" -> "AuthenticationError"
      [] cause = "ServerUnavailableException" -> "ConnectionError"
      [] OTHER -> "RedisError"

\* C5: a command that raises for a remote Error raises the error its cause
\* maps to: timeout, authentication, connection, else the generic error.
C5_ErrorMappedByCause ==
    (IsCall(last) /\ last.ret = "raise" /\ Len(last.calls) = 1 /\ last.calls[1].rtype = "Error")
        => last.exc = MappedError(last.calls[1].cause)

\* C6: a command one of whose remote calls answered Error raises; it does
\* not return a value.
C6_ErrorAlwaysRaises == (IsCall(last) /\ HasError(last)) => last.ret = "raise"

\* The integer a key of the adapter's cache held before the command c.
HeldInt(c) == c.pre[c.key].live /\ IsIntBytes(c.pre[c.key].val)
IntBefore(c) == IntOfBytes(c.pre[c.key].val)
\* The one remote call of c is an increment by n.
IsIncrementBy(c, n) == IsOneCall(c, "increment") /\ c.calls[1].value = IntV(n)

\* C9: on a key holding the integer N, incrby(k, A) returns N+A and a
\* decrby(k, A) right after it returns N, and decrby then incrby likewise;
\* each is one remote increment, by A and by -A, whose value is returned.
C9_IncrbyDecrbyInverse ==
    (/\ prev.cmd \in {"incrby", "decrby"} /\ last.cmd \in {"incrby", "decrby"}
     /\ prev.cmd # last.cmd /\ prev.amount.k = "int" /\ last.amount = prev.amount
     /\ HeldInt(prev) /\ ~HasError(prev) /\ ~HasError(last))
        => LET A == IF prev.cmd = "incrby" THEN prev.amount.n ELSE -prev.amount.n
           IN /\ prev.ret = "return" /\ prev.out = IntV(IntBefore(prev) + A)
              /\ last.ret = "return" /\ last.out = IntV(IntBefore(prev))
              /\ IsIncrementBy(prev, A) /\ IsIncrementBy(last, -A)
              /\ store[cache_name][last.key].val = PyStr(IntBefore(prev))

C9_Witness ==
    /\ prev.cmd = "incrby" /\ last.cmd = "decrby" /\ prev.amount = PyInt(2)
    /\ last.amount = PyInt(2) /\ HeldInt(prev) /\ IntBefore(prev) = -1
    /\ prev.out = IntV(1) /\ last.out = IntV(-1)

\* C10: incr, incrby, decr and decrby called without an amount, on a key
\* holding the integer N, return N+1 (incr, incrby) and N-1 (decr, decrby).
C10_DefaultAmountIsOne ==
    (/\ last.cmd \in {"incr", "incrby", "decr", "decrby"} /\ last.amount = Unset
     /\ HeldInt(last) /\ ~HasError(last))
        => /\ last.ret = "return"
           /\ last.out = IntV(IntBefore(last) + (IF last.cmd \in {"incr", "incrby"} THEN 1 ELSE -1))

\* The last command was a set that asked for xx, keepttl or get.
AsksUnsupported ==
    /\ last.cmd = "set"
    /\ \E n \in {"xx", "keepttl", "get"} : Opt(last.opts, n) = PyTrue

\* The last command was an lpop or rpop that was given a count.
PopsWithCount == last.cmd \in {"lpop", "rpop"} /\ last.count.k = "int"

\* C7: a set called with xx=True, keepttl=True or get=True raises
\* NotImplementedError whatever other options accompany it, and so does an
\* lpop or rpop called with a count; each issues no remote call and leaves
\* the cache unchanged.
C7_UnsupportedOptionsRaise ==
    /\ AsksUnsupported
        => /\ last.ret = "raise" /\ last.exc = "NotImplementedError"
           /\ last.calls = <<>> /\ StoreUntouched
    /\ PopsWithCount
        => /\ last.ret = "raise" /\ last.exc = "NotImplementedError"
           /\ last.calls = <<>> /\ lists[cache_name] = last.lpre

AllDone == \A c \in Callers : callers[c].pc = "done"
\* The callers whose remote call did not fail, and those that got True.
Served == {c \in Callers : ~HasError(callers[c])}
Winners == {c \in Callers : callers[c].ret = "return" /\ callers[c].out = TrueV}

\* C4: callers that concurrently invoke setnx(k, .) or set(k, ., nx=True) on
\* an absent key each issue exactly one remote set_if_not_exists; of those
\* whose call did not fail exactly one gets True, the others get False, and
\* the key holds the winner's value.
C4_OneWinner ==
    AllDone
        => /\ \A c \in Callers : IsOneCall(callers[c], "set_if_not_exists")
           /\ Winners \subseteq Served
           /\ Served # {}
                => /\ Cardinality(Winners) = 1
                   /\ \A c \in Served \ Winners :
                        callers[c].ret = "return" /\ callers[c].out = FalseV
                   /\ \A w \in Winners :
                        store[cache_name]["k1"] = Entry(AsBytes(callers[w].value), Forever)

C4_Witness ==
    /\ AllDone /\ Served = Callers
    /\ callers[1].cmd = "setnx" /\ callers[1].out = FalseV
    /\ callers[2].cmd = "set" /\ callers[2].out = TrueV
    /\ callers[1].value # callers[2].value

\* A remote call of the command c failed for a cause of the remote's side
\* (not because the SDK refused an argument).
RemoteFailed(c) == \E i \in 1..Len(c.calls) : c.calls[i].cause \in Causes
CounterCmds == {"incr", "incrby", "decr", "decrby"}
\* The signed step of a counter command with the explicit amount a.
StepOf(c) == IF c.cmd \in {"incr", "incrby"} THEN c.amount.n ELSE -c.amount.n

\* C11: a set with an integer value n issues one remote call that transmits
\* the decimal string of n, and a counter command that follows it operates
\* on n: it returns n plus its signed amount.
C11_IntegerSetIsDecimalString ==
    /\ (last.cmd = "set" /\ last.value.t = "int")
        => /\ Len(last.calls) = 1
           /\ last.calls[1].value = StrV(PyStr(last.value.v[1]))
    /\ (/\ prev.cmd = "set" /\ prev.value.t = "int" /\ ~RemoteFailed(prev)
        /\ last.cmd \in CounterCmds /\ last.amount.k = "int" /\ ~RemoteFailed(last))
        => /\ last.ret = "return"
           /\ last.out = IntV(prev.value.v[1] + StepOf(last))

\* The named keys the adapter's cache held before the command c.
PresentBefore(c) == {c.names[i] : i \in {j \in 1..Len(c.names) : c.pre[c.names[j]].live}}

\* C12: a delete none of whose remote calls failed returns the number of the
\* named keys that were present before the call, and afterwards every named
\* key is absent.
C12_DeleteCountsPresentKeys ==
    (last.cmd = "delete" /\ ~RemoteFailed(last))
        => /\ last.ret = "return"
           /\ last.out = IntV(Cardinality(PresentBefore(last)))
           /\ \A i \in 1..Len(last.names) : ~store[cache_name][last.names[i]].live

\* The whole seconds of the relative expiry the write w asked for; 0 when it
\* asked for none or for a fraction of a second.
SecondsOf(w) ==
    IF w.cmd = "setex" THEN w.time.n
    ELSE IF Opt(w.opts, "ex").k = "int" THEN Opt(w.opts, "ex").n
    ELSE IF Opt(w.opts, "px").k = "int" /\ Opt(w.opts, "px").n % 1000 = 0
    THEN Opt(w.opts, "px").n \div 1000
    ELSE 0

\* C13: after a key is written with a relative expiry of S seconds, by
\* set(ex=S), set(px=1000*S) or setex(S), a get of it returns the value
\* while fewer than S seconds have passed and None once S seconds have.
C13_RelativeExpiry ==
    (/\ last.cmd = "get" /\ ~RemoteFailed(last)
     /\ prev.cmd \in {"set", "setex"} /\ prev.ret = "return" /\ prev.out = TrueV
     /\ SecondsOf(prev) > 0)
        => /\ last.ret = "return"
           /\ last.out = (IF now < prev.at + SecondsOf(prev)
                          THEN BytesV(AsBytes(prev.value)) ELSE NoneV)

\* The TTL the variant's set derives from the options o at time t.
DerivedTtl(o, t) ==
    IF variant = "client" THEN client_set_ttl(client_defaults(o), t)
    ELSE wrapper_set_ttl(wrapper_defaults(o), t)

\* The options o with px = P replaced by ex = P div 1000.
AsSeconds(o) ==
    [n \in (DOMAIN o \ {"px"}) \cup {"ex"} |->
        IF n = "ex" THEN PyInt(o.px.n \div 1000) ELSE o[n]]

\* C14: from an integer px = P (and no ex) set derives a TTL of P div 1000
\* whole seconds, the TTL it derives from ex = P div 1000.
C14_MillisTruncated ==
    (/\ last.cmd = "set" /\ Opt(last.opts, "px").k = "int"
     /\ Opt(last.opts, "ex").k \in {"unset", "none"})
        => LET d == DerivedTtl(last.opts, last.at)
           IN /\ d.k \in {"td", "int"}
              /\ d.n = last.opts.px.n \div 1000
              /\ d = DerivedTtl(AsSeconds(last.opts), last.at)

\* The reply c.pre gives for each key of ks: its bytes on a hit, None on a miss.
RepliesBefore(c, ks) ==
    [i \in 1..Len(ks) |-> IF c.pre[ks[i]].live THEN BytesV(c.pre[ks[i]].val) ELSE NoneV]

\* C15: mget returns, after one remote get per key, the list of the keys'
\* values in the order of the keys (bytes on a hit, None on a miss); mset and
\* delete return after one remote call per item when none of them failed.
C15_BatchJoinsAllCalls ==
    /\ last.cmd = "mget"
           => /\ last.ret = "return"
              /\ Len(last.calls) = Len(last.keys)
              /\ last.out = ListV(RepliesBefore(last, last.keys))
    /\ (last.cmd = "mset" /\ ~HasError(last))
           => last.ret = "return" /\ Len(last.calls) = Len(last.mapping)
    /\ (last.cmd = "delete" /\ ~HasError(last))
           => last.ret = "return" /\ Len(last.calls) = Len(last.names)

\* The adapters that implement the hash, set and sorted-set commands.
HasCollections == variant \in {"wrapper", "legacy"}

\* The field map of the hset call c: the pair, then the mapping, then the
\* items taken two by two, a later value of a field replacing an earlier one.
FieldMapOf(c) ==
    Merge(<<>>, (IF c.key.t = "none" THEN <<>> ELSE <<<<c.key, c.value>>>>)
                \o c.mapping.items \o Pairs(c.items.items))
\* The hset call c names at least one field, its items alternating.
NamesFields(c) == Len(c.items.items) % 2 = 0 /\ DOMAIN FieldMapOf(c) # {}
\* The dictionary d with the fields of m set.
Overlaid(d, m) == [x \in DOMAIN d \cup DOMAIN m |-> IF x \in DOMAIN m THEN m[x] ELSE d[x]]

\* C16: an hset whose remote call does not fail issues one
\* dictionary_set_fields that sets the fields of its field map (items over
\* mapping over pair) and returns the number of fields of that map; an
\* hgetall that follows an hset on an empty hash returns that map as bytes.
C16_HsetOneCallLastWins ==
    /\ (HasCollections /\ last.cmd = "hset" /\ ~RemoteFailed(last) /\ NamesFields(last))
           => /\ IsOneCall(last, "dictionary_set_fields")
              /\ last.ret = "return"
              /\ last.out = IntV(Cardinality(DOMAIN FieldMapOf(last)))
              /\ dictionaries[cache_name][last.name]
                     = Overlaid(last.dpre[last.name], FieldMapOf(last))
    /\ (/\ HasCollections /\ last.cmd = "hgetall" /\ ~RemoteFailed(last)
        /\ prev.cmd = "hset" /\ ~RemoteFailed(prev) /\ NamesFields(prev)
        /\ DOMAIN prev.dpre[prev.name] = {})
           => last.ret = "return" /\ last.out = DictV("bytes", FieldMapOf(prev))

\* The list hmget owes for the keys ks on the dictionary d, its values
\* handed out as t: the value of a field d has, None for any other.
OnePerKey(t, d, ks) ==
    ListV([i \in 1..Len(ks) |->
              IF AsBytes(ks[i]) \in DOMAIN d THEN Decoded(t, d[AsBytes(ks[i])]) ELSE NoneV])

\* C17: an hmget whose remote call does not fail returns one entry per
\* requested key, in the order of the request: the value of the field, or
\* None when the hash has no such field or is absent.
C17_HmgetOnePerKey ==
    (HasCollections /\ last.cmd = "hmget" /\ ~RemoteFailed(last))
        => /\ last.ret = "return"
           /\ \E t \in {"bytes", "str"} :
                  last.out = OnePerKey(t, last.dpre[last.name], last.keys)

\* The bytes of the elements a call names.
BytesOf(xs) == {AsBytes(xs[i]) : i \in 1..Len(xs)}

\* C18: an sadd whose remote call does not fail leaves the set with the
\* elements it had and the ones added, an srem with the ones it had less the
\* ones removed, and smembers returns exactly the elements the set then
\* has, as bytes.
C18_SmembersAddedNotRemoved ==
    /\ (HasCollections /\ last.cmd = "sadd" /\ ~RemoteFailed(last))
           => sets[cache_name][last.name] = last.spre[last.name] \cup BytesOf(last.values)
    /\ (HasCollections /\ last.cmd = "srem" /\ ~RemoteFailed(last))
           => sets[cache_name][last.name] = last.spre[last.name] \ BytesOf(last.values)
    /\ (HasCollections /\ last.cmd = "smembers" /\ ~RemoteFailed(last))
           => last.ret = "return" /\ last.out = SetV("bytes", sets[cache_name][last.name])

\* C19: an sadd, srem, zrem or hdel that returns, its remote call a
\* Success, returns the number of elements the caller passed.
C19_CountIsNumberPassed ==
    /\ (/\ HasCollections /\ last.cmd \in {"sadd", "srem", "zrem"}
        /\ last.ret = "return" /\ ~HasError(last))
           => last.out = IntV(Len(last.values))
    /\ (HasCollections /\ last.cmd = "hdel" /\ last.ret = "return" /\ ~HasError(last))
           => last.out = IntV(Len(last.keys))

\* The elements of ranks s to e, both inclusive, of the sorted set z in the
\* order asked for.
RanksOf(z, s, e, descending) ==
    LET all == InSortOrder(z, IF descending THEN "DESCENDING" ELSE "ASCENDING")
    IN SubSeq(all, s + 1, IF e + 1 < Len(all) THEN e + 1 ELSE Len(all))

\* C20: a zrange by rank with 0 <= start <= end whose remote call does not
\* fail returns the elements of ranks start to end inclusive, by ascending
\* score, or by descending score when desc is true, in that order.
C20_ZrangeByRankInclusive ==
    (/\ HasCollections /\ last.cmd = "zrange" /\ ~RemoteFailed(last)
     /\ ~Truthy(Opt(last.opts, "byscore")))
        => /\ last.ret = "return"
           /\ \E t \in {"bytes", "str"} :
                  last.out = RangeV(t, RanksOf(last.zpre[last.name], last.start, last.end,
                                               Truthy(Opt(last.opts, "desc"))),
                                    Truthy(Opt(last.opts, "withscores")))

\* What the variant's own zrange returns on the sorted sets as they are.
zrange_now(name, start, end, o, listing) ==
    IF variant = "wrapper"
    THEN wrapper_zrange(sorted_sets, cache_name, name, start, end, o, listing, "ok")
    ELSE legacy_zrange(sorted_sets, cache_name, name, start, end, o, listing, "ok")
\* The options of the range command c passed on to an ascending zrange by
\* rank.
AscendingByRank(c) ==
    [n \in DOMAIN c.opts \cap {"withscores", "score_cast_func"} |-> c.opts[n]]
        @@ [desc |-> PyFalse, byscore |-> PyFalse]
\* Every run of consecutive elements of the sorted set z, in either order.
Runs(z) ==
    LET n == Len(InSortOrder(z, "ASCENDING"))
    IN {SubSeq(InSortOrder(z, d), i, j) : d \in {"ASCENDING", "DESCENDING"},
                                         i \in 1..(n + 1), j \in 0..n}
\* The outputs a and b are the same elements in exactly reversed order, with
\* their scores when withscores is set.
IsReverseOf(a, b, z, withscores) ==
    \E xs \in Runs(z), t \in {"bytes", "str"} :
        a = RangeV(t, xs, withscores) /\ b = RangeV(t, Reverse(xs), withscores)

\* C21: a zrevrange with rank bounds 0 <= s <= e whose remote call does not
\* fail returns the elements that an ascending zrange with the same bounds
\* returns on the same sorted set, in exactly the reversed order, as
\* (member, score) pairs when withscores is set and as bare members if not.
C21_ZrevrangeReversesZrange ==
    (HasCollections /\ last.cmd = "zrevrange" /\ ~RemoteFailed(last))
        => LET fwd == zrange_now(last.name, last.start, last.end, AscendingByRank(last),
                                 last.listing)
           IN /\ last.ret = "return" /\ fwd.ret = "return"
              /\ IsReverseOf(last.out, fwd.out, last.zpre[last.name],
                             Truthy(Opt(last.opts, "withscores")))

\* The elements of the sorted set z whose score lies in lo..hi, both
\* inclusive, by ascending or by descending score.
ScoresOf(z, lo, hi, descending) ==
    LET within(x) == lo <= x[2] /\ x[2] <= hi
    IN SelectSeq(InSortOrder(z, IF descending THEN "DESCENDING" ELSE "ASCENDING"), within)
\* The command c is a forward query by score: zrangebyscore, or zrange with
\* byscore set.
IsForwardByScore(c) ==
    \/ c.cmd = "zrangebyscore"
    \/ c.cmd = "zrange" /\ Opt(c.opts, "byscore") = PyTrue /\ ~Truthy(Opt(c.opts, "desc"))

\* C22: a forward query by score with bounds lo <= hi whose remote call does
\* not fail returns exactly the members with lo <= score <= hi by ascending
\* score, and zrevrangebyscore(name, hi, lo) returns the same members by
\* descending score, the exact reverse.
C22_ByScoreInclusiveBothWays ==
    /\ (HasCollections /\ IsForwardByScore(last) /\ ~RemoteFailed(last))
           => /\ last.ret = "return"
              /\ \E t \in {"bytes", "str"} :
                     last.out = RangeV(t, ScoresOf(last.zpre[last.name], last.start, last.end,
                                                   FALSE),
                                       Truthy(Opt(last.opts, "withscores")))
    /\ (HasCollections /\ last.cmd = "zrevrangebyscore" /\ ~RemoteFailed(last))
           => /\ last.ret = "return"
              /\ \E t \in {"bytes", "str"} :
                     last.out = RangeV(t, ScoresOf(last.zpre[last.name], last.end, last.start,
                                                   TRUE),
                                       Truthy(Opt(last.opts, "withscores")))

\* The bytes the remote keeps for the values pushed.
PushedBytes(values) == [i \in 1..Len(values) |-> AsBytes(values[i])]
\* The list named by the list command c before c and after it.
ListBefore(c) == c.lpre[c.key]
ListNow(c) == lists[cache_name][c.key]
\* The bounds of the lrange c cover the whole list: from index 0 to -1, or to
\* the last index or beyond it.
IsFullRange(c) == c.start = 0 /\ (c.end = -1 \/ c.end >= Len(ListBefore(c)) - 1)
\* The output out is the elements xs, as bytes or as strings.
IsElements(out, xs) == \E t \in {"bytes", "str"} : out = ElementsV(t, xs)
\* The list command c ran and its remote call did not fail.
ListCall(c, cmd) == HasCollections /\ c.cmd = cmd /\ ~RemoteFailed(c)

\* C23: on a list L, rpush of v1..vn leaves L ++ [v1..vn] and lpush leaves
\* [vn..v1] ++ L; a full-range lrange returns the whole list in order, an
\* lpop without a count returns and removes the head element, an rpop the
\* tail element, and llen returns the number of elements.
C23_PushesAndPops ==
    /\ ListCall(last, "rpush")
           => last.ret = "return" /\ ListNow(last) = ListBefore(last) \o PushedBytes(last.values)
    /\ ListCall(last, "lpush")
           => /\ last.ret = "return"
              /\ ListNow(last) = Reverse(PushedBytes(last.values)) \o ListBefore(last)
    /\ (ListCall(last, "lrange") /\ IsFullRange(last))
           => last.ret = "return" /\ IsElements(last.out, ListBefore(last))
    /\ (ListCall(last, "lpop") /\ last.count = Unset /\ ListBefore(last) # <<>>)
           => /\ last.ret = "return" /\ IsElements(ListV(<<last.out>>), <<Head(ListBefore(last))>>)
              /\ ListNow(last) = Tail(ListBefore(last))
    /\ (ListCall(last, "rpop") /\ last.count = Unset /\ ListBefore(last) # <<>>)
           => /\ last.ret = "return"
              /\ IsElements(ListV(<<last.out>>), <<ListBefore(last)[Len(ListBefore(last))]>>)
              /\ ListNow(last) = SubSeq(ListBefore(last), 1, Len(ListBefore(last)) - 1)
    /\ ListCall(last, "llen") => last.ret = "return" /\ last.out = IntV(Len(ListBefore(last)))

\* The index i of the target interface on a list of n elements, counted
\* from 0: a negative index counts from the tail.
FromHead(i, n) == IF i < 0 THEN n + i ELSE i
\* The elements of xs at the indices start to end, both inclusive, as the
\* target interface selects them.
InclusiveRange(xs, start, end) ==
    LET s == IF FromHead(start, Len(xs)) < 0 THEN 0 ELSE FromHead(start, Len(xs))
        e == IF FromHead(end, Len(xs)) >= Len(xs) THEN Len(xs) - 1 ELSE FromHead(end, Len(xs))
    IN SubSeq(xs, s + 1, e + 1)

\* C24: lrange with any bounds never raises NotImplementedError, and when
\* its remote call does not fail it returns the elements at the indices
\* start to end inclusive, negative indices counting from the tail: the
\* whole list for (0, -1), the first element alone for (0, 0).
C24_LrangeInclusiveAnyBounds ==
    /\ (HasCollections /\ last.cmd = "lrange") => last.exc # "NotImplementedError"
    /\ ListCall(last, "lrange")
           => /\ last.ret = "return"
              /\ IsElements(last.out, InclusiveRange(ListBefore(last), last.start, last.end))

\* A remote call of the command c was answered by a response of no class
\* the command tests for.
GotUnrecognised(c) == \E i \in 1..Len(c.calls) : c.calls[i].rtype = Unrecognised

\* C25: a command that receives a remote outcome which is none of the
\* variants it recognises raises the unknown-response error; it returns no
\* value.
C25_UnrecognisedOutcomeRaises ==
    (IsCall(last) /\ GotUnrecognised(last))
        => last.ret = "raise" /\ last.exc = "UnknownException"

\* The read commands that answer a Miss with a payload.
ReadCmds == {"hget", "lpop", "rpop", "hgetall", "hkeys", "lrange", "llen", "smembers", "hmget",
             "zrange", "zrevrange", "zrangebyscore", "zrevrangebyscore"}
\* The remote answered the one call of the command c with a Miss.
Missed(c) == Len(c.calls) = 1 /\ c.calls[1].rtype = "Miss"
\* The payload that stands for no value in the read command c.
NoValue(c) ==
    CASE c.cmd \in {"hget", "lpop", "rpop"} -> NoneV
      [] c.cmd = "hgetall" -> Val("dict", <<>>)
      [] c.cmd = "llen" -> IntV(0)
      [] c.cmd = "smembers" -> Val("set", <<>>)
      [] c.cmd = "hmget" -> ListV([i \in 1..Len(c.keys) |-> NoneV])
      [] OTHER -> ListV(<<>>)

\* C26: a read command whose remote call is answered by a Miss returns its
\* no-value payload: None for hget, lpop and rpop, an empty dict for
\* hgetall, an empty list for hkeys, lrange and the sorted-set ranges, 0 for
\* llen, an empty set for smembers, and one None per requested key for hmget.
C26_MissHasItsPayload ==
    (HasCollections /\ last.cmd \in ReadCmds /\ Missed(last))
        => last.ret = "return" /\ last.out = NoValue(last)

\* The cache the adapter was constructed with.
ConstructedCache == "test-cache"
\* No cache but the adapter's own holds anything.
OtherCachesUntouched ==
    \A cn \in CacheNames \ {ConstructedCache} :
        /\ \A k \in Keys : ~store[cn][k].live
        /\ lists[cn] = [k \in Keys |-> <<>>]

\* C27: every remote call of every command names the cache given at
\* construction, the adapter's cache name never changes, and no other cache
\* is read or written.
C27_OneCacheForLife ==
    /\ cache_name = ConstructedCache
    /\ OtherCachesUntouched
    /\ IsCall(last) => \A i \in 1..Len(last.calls) : last.calls[i].cache = ConstructedCache

\* The expiry options of set.
ExpiryNames == {"ex", "px", "exat", "pxat"}
\* The set c asked for nx together with an expiry option.
NxWithExpiry(c) ==
    /\ c.cmd = "set" /\ Opt(c.opts, "nx") = PyTrue
    /\ \E n \in ExpiryNames : Opt(c.opts, n).k = "int"
\* The options o without nx.
WithoutNx(o) == [n \in DOMAIN o \ {"nx"} |-> o[n]]

\* C28: a set with nx=True and an expiry option that reaches the remote
\* issues one conditional write whose TTL is the TTL the same set without nx
\* derives from the option, and a key it stores expires when the
\* unconditional set's would.
C28_NxKeepsExpiry ==
    (NxWithExpiry(last) /\ ~RemoteFailed(last) /\ last.calls # <<>>)
        => LET ttl == DerivedTtl(WithoutNx(last.opts), last.at)
           IN /\ IsOneCall(last, "set_if_not_exists")
              /\ last.calls[1].ttl = ttl
              /\ (last.ret = "return" /\ last.out = TrueV)
                     => store[cache_name][last.key] = Stored(AsBytes(last.value), ttl, last.at)

\* The remote writes the set c issued.
WritesOf(c) == {i \in 1..Len(c.calls) : c.calls[i].op \in {"set", "set_if_not_exists"}}
\* The seconds from the call of c to the absolute expiry it asked for, and
\* 0 when it asked for none: exat is in seconds and pxat in milliseconds.
UntilAbsolute(c) ==
    IF Opt(c.opts, "exat").k = "int" THEN Opt(c.opts, "exat").n - c.at
    ELSE IF Opt(c.opts, "pxat").k = "int" THEN (Opt(c.opts, "pxat").n \div 1000) - c.at
    ELSE 0

\* C29: the TTL of every remote write of a set is absent or a duration
\* above zero, and when the set asked for an absolute expiry that lies in
\* the future, it is the time from the call to that expiry.
C29_TtlAbsentOrPositive ==
    last.cmd = "set"
        => \A i \in WritesOf(last) :
               LET ttl == last.calls[i].ttl
               IN /\ ttl.k = "none" \/ (ttl.k \in {"td", "int"} /\ ttl.n > 0)
                  /\ UntilAbsolute(last) > 0 => ttl.n = UntilAbsolute(last)

\* The sorted sets after the mapping of the zadd c is put into what c found.
AfterPut(c) ==
    Remote_sorted_set_put_elements([sorted_sets EXCEPT ![cache_name] = c.zpre], cache_name,
                                   c.name, c.mapping, "ok").st

\* C30: called with no optional argument, set is one unconditional write
\* with no TTL, zadd stores the mapping and returns its length, and lpop and
\* rpop pop and return one element; none of them raises NotImplementedError.
C30_OmittedMeansNotRequested ==
    /\ (last.cmd = "set" /\ last.opts = NoOpts /\ ~RemoteFailed(last))
           => /\ last.ret = "return" /\ last.out = TrueV
              /\ IsOneCall(last, "set") /\ last.calls[1].ttl = PyNone
              /\ store[cache_name][last.key] = Entry(AsBytes(last.value), Forever)
    /\ (HasCollections /\ last.cmd = "zadd" /\ last.opts = NoOpts /\ ~RemoteFailed(last))
           => /\ last.ret = "return" /\ last.out = IntV(Len(last.mapping))
              /\ sorted_sets = AfterPut(last)
    /\ (HasCollections /\ last.cmd \in {"lpop", "rpop"} /\ last.count = Unset
        /\ ~RemoteFailed(last))
           => /\ last.exc # "NotImplementedError"
              /\ ListBefore(last) # <<>>
                     => /\ last.ret = "return" /\ last.out # NoneV
                        /\ Len(ListNow(last)) = Len(ListBefore(last)) - 1

====
